---- MODULE Spec2Model ----
(***************************************************************************)
(* Bullen audio router: the real-time engines (AudioEngine,                *)
(* MatrixAudioEngine), their control plane, the metering worker and the    *)
(* per-channel recording writers, as one state machine.                    *)
(*                                                                         *)
(* Numbers.  Samples are integers, 10 standing for full scale 1.0.  Gains  *)
(* are fixed point with Unity standing for 1.0.  A block is one period's   *)
(* samples of one port, a sequence of length Frames.  Every thread is a    *)
(* record holding its position (pc) and its Python locals under the names  *)
(* the source gives them.  A lock is the name of the thread holding it, or *)
(* "free".  A thread that reaches a blocking acquire of a held lock is     *)
(* parked: waiting[t] names the lock until the thread gets it.             *)
(***************************************************************************)
EXTENDS Integers, Sequences, FiniteSets, TLC

\* ------------------------------------------------------------------ bounds

\* Periods the transport delivers in the control and metering specifications.
MaxPeriods == 2

\* Periods the transport delivers in the recording specification, counted
\* beyond the queue capacity, so that a full queue is reached and then drained.
MaxOverrun == 2

\* Ticks of the metering worker.
MaxTicks == 2

\* Periods and metering ticks while get_state is called
MaxReads == 1

\* Periods the transport delivers between client.activate() and the start of
\* the writers, in the recording specifications.
MaxEarly == 1

\* ----------------------------------------------------------- configuration

\* config 'inputs'
NumInputs == 2

\* config 'outputs'
NumOutputs == 2

\* the transport's block size (client.blocksize), the `frames` of _process
Frames == 2

\* gain 1.0 in fixed point
Unity == 1000

\* the floor of the recording queue's capacity
MinRecordQueueSize == 16

\* config 'record_queue_size': a value below the floor
CfgRecordQueueSize == 4

Max(a, b) == IF a >= b THEN a ELSE b

Min(a, b) == IF a <= b THEN a ELSE b

Abs(x) == IF x >= 0 THEN x ELSE 0 - x

record_queue_size == Max(MinRecordQueueSize, CfgRecordQueueSize)

\* queue.Queue(maxsize=16) in MatrixAudioEngine
MatrixQueueSize == 16

Chan == 0 .. (NumInputs - 1)

Outs == 0 .. (NumOutputs - 1)

\* Threads that take locks: the audio callback, the control-plane caller and
\* the metering worker.
Threads == {"rt", "ctl", "vu"}

\* ------------------------------------------------------------ audio blocks

\* The signals the capture ports can carry, each repeated cyclically.
Waves == << <<4, -6, 2>>, <<10, -3>> >>

\* The buffer port i holds in period p: inport.get_array().
Block(w, p) == [k \in 1 .. Frames |-> w[(((p - 1) * Frames + k - 1) % Len(w)) + 1]]

Silence == [k \in 1 .. Frames |-> 0]

\* x * g for a sample x and a fixed-point gain g, rounded towards zero.
MulGain(x, g) == IF x >= 0 THEN (x * g) \div Unity ELSE 0 - (((0 - x) * g) \div Unity)

\* buf * g
ScaleBlock(buf, g) == [k \in 1 .. Frames |-> MulGain(buf[k], g)]

\* a + b on blocks
AddBlock(a, b) == [k \in 1 .. Frames |-> a[k] + b[k]]

RECURSIVE PeakUpTo(_, _)
PeakUpTo(b, n) == IF n = 0 THEN 0 ELSE Max(Abs(b[n]), PeakUpTo(b, n - 1))

\* np.max(np.abs(block))
Peak(b) == PeakUpTo(b, Frames)

RECURSIVE DotUpTo(_, _)
DotUpTo(b, n) == IF n = 0 THEN 0 ELSE b[n] * b[n] + DotUpTo(b, n - 1)

\* np.dot(block, block)
Dot(b) == DotUpTo(b, Frames)

RECURSIVE ISqrtFrom(_, _)
ISqrtFrom(n, r) == IF (r + 1) * (r + 1) > n THEN r ELSE ISqrtFrom(n, r + 1)

\* np.sqrt, rounded down
ISqrt(n) == ISqrtFrom(n, 0)

\* tanh(x / 10) * 10 rounded to the nearest integer, for x = 1 .. 20; beyond
\* that float32 tanh rounds to full scale within the model's resolution.
TanhTable == <<1, 2, 3, 4, 5, 5, 6, 7, 7, 8, 8, 8, 9, 9, 9, 9, 9, 9, 10, 10>>

\* np.tanh on one sample
SoftClip(x) ==
  IF x = 0 THEN 0
  ELSE IF Abs(x) > Len(TanhTable) THEN (IF x > 0 THEN 10 ELSE 0 - 10)
  ELSE IF x > 0 THEN TanhTable[x] ELSE 0 - TanhTable[0 - x]

SoftClipBlock(b) == [k \in 1 .. Frames |-> SoftClip(b[k])]

\* exponential smoothing, alpha = 0.3: alpha * x + (1 - alpha) * prev
Smooth(x, prev) == (3 * x + 7 * prev) \div 10

\* linear_to_db in hundredths of a dB: 20 * log10(max(1e-12, lin)), tabulated
\* for the gains the model stores.
linear_to_db(lin) ==
  CASE lin <= 0 -> 0 - 24000
    [] lin = 500 -> 0 - 602
    [] lin = 1000 -> 0
    [] lin = 2000 -> 602
    [] OTHER -> 0

\* The route table: a dict from (input, output) to gain.
EmptyTable == [x \in {} |-> 0]

\* table[key] = value
TablePut(t, key, value) == [x \in (DOMAIN t) \cup {key} |-> IF x = key THEN value ELSE t[x]]

\* table.pop(key, None)
TablePop(t, key) == [x \in (DOMAIN t) \ {key} |-> t[x]]

\* ------------------------------------------------------------------- state

VARIABLES
  engine,            \* which engine class the process built: "simple" | "matrix"
  record_enabled,    \* config 'record'
  wave,              \* the signal on each capture port
  jack,              \* the import of the transport library succeeded
  built,             \* what __init__ has created so far
  dummy,             \* the DummyEngine built from the same configuration
  ports,             \* the ports' registration in __init__, and the ports written
  feed,              \* the WAV feeder script (scripts/feed_wav_to_input.py)
  app_state,         \* the server's metering sockets and their publisher
  main,              \* position of the thread that calls start()
  active,            \* the transport client is activated
  closed,            \* the transport client is closed
  stopper,           \* the frame of the thread that calls stop()
  auto_connect_capture,   \* config 'auto_connect_capture'
  auto_connect_playback,  \* config 'auto_connect_playback'
  physical,          \* how many physical ports the transport lists in each direction
  conn,              \* start()'s frame in _auto_connect_inputs and _auto_connect_outputs
  period,            \* number of callback invocations begun
  _lock,             \* the control lock
  waiting,           \* the lock each thread is parked on, "" when none
  selected_ch, gains, mutes,
  routing_matrix, input_gains, input_mutes, output_gains, output_mutes,
  vu_peak_in, vu_rms_in, vu_peak_out, vu_rms_out,
  _vu_peak_temp, _vu_sumsq_temp, _vu_count_temp,
  _vu_stats_lock, _vu_pub_lock,
  _vu_peak_smooth, _vu_rms_smooth, vu_peak, vu_rms, _vu_started, _vu_stop, ticks,
  _rec_queues, _rec_drop_counts, _rec_started, _rec_stop, files,
  outports,          \* what the last completed routing step wrote to each output
  rt,                \* the audio callback's frame
  ctl,               \* the control-plane caller's frame
  vu,                \* the metering worker's frame
  rec,               \* the writer threads' frames
  hist               \* history of the run, read by the properties only

cfgVars == <<engine, record_enabled, wave, jack>>

sideVars == <<ports, feed, app_state>>

connVars == <<auto_connect_capture, auto_connect_playback, physical, conn>>

simpleCtl == <<selected_ch, gains, mutes>>

matrixCtl == <<routing_matrix, input_gains, input_mutes, output_gains, output_mutes>>

matrixVu == <<vu_peak_in, vu_rms_in, vu_peak_out, vu_rms_out>>

vuAcc == <<_vu_peak_temp, _vu_sumsq_temp, _vu_count_temp>>

vuPub == <<_vu_peak_smooth, _vu_rms_smooth, vu_peak, vu_rms>>

vuLocks == <<_vu_stats_lock, _vu_pub_lock>>

vuThread == <<_vu_started, _vu_stop, ticks, vu>>

recVars == <<_rec_queues, _rec_drop_counts, _rec_started, _rec_stop, files, rec>>

sessVars == <<main, active, closed, stopper>>

lockVars == <<_lock, waiting>>

vars == <<engine, record_enabled, wave, jack, built, dummy, ports, feed, app_state, main, active, closed, stopper,
          auto_connect_capture, auto_connect_playback, physical, conn, period, _lock, waiting,
          selected_ch, gains, mutes,
          routing_matrix, input_gains, input_mutes, output_gains, output_mutes,
          vu_peak_in, vu_rms_in, vu_peak_out, vu_rms_out,
          _vu_peak_temp, _vu_sumsq_temp, _vu_count_temp,
          _vu_stats_lock, _vu_pub_lock,
          _vu_peak_smooth, _vu_rms_smooth, vu_peak, vu_rms, _vu_started, _vu_stop, ticks,
          _rec_queues, _rec_drop_counts, _rec_started, _rec_stop, files,
          outports, rt, ctl, vu, rec, hist>>

\* The buffer of input port i in the current period.
Inport(i) == Block(Waves[wave[i]], period)

ZeroChan == [i \in Chan |-> 0]

NoPeriods == [i \in Chan |-> {}]

\* A callback frame between invocations: no locals.
RtIdle ==
  [pc |-> "idle", i |-> 0, sel |-> 0, gains |-> ZeroChan, mutes |-> [i \in Chan |-> FALSE],
   old_peak |-> 0, route_buf |-> <<>>,
   routing |-> EmptyTable, in_gains |-> ZeroChan, in_mutes |-> [i \in Chan |-> FALSE],
   out_gains |-> [o \in Outs |-> 0],
   out_mutes |-> [o \in Outs |-> FALSE], input_buffers |-> <<>>, output_buffers |-> <<>>]

CtlIdle == [pc |-> "idle", op |-> "", a |-> 0, b |-> 0, c |-> 0, k |-> 0, res |-> <<>>]

VuIdle ==
  [pc |-> "off", peak_temp |-> ZeroChan, sumsq |-> ZeroChan, counts |-> ZeroChan,
   rms_values |-> ZeroChan]

RecIdle == [pc |-> "off", block |-> <<>>]

\* The frame of stop() before it is called: t is the writer being joined.
StopIdle == [pc |-> "idle", t |-> 0, raised |-> FALSE]

\* The control state both engines' callbacks snapshot.
ControlState ==
  [sel |-> selected_ch, gains |-> gains, mutes |-> mutes,
   routing |-> routing_matrix, in_gains |-> input_gains, in_mutes |-> input_mutes,
   out_gains |-> output_gains, out_mutes |-> output_mutes]

NoSnap ==
  [sel |-> 0, gains |-> ZeroChan, mutes |-> [i \in Chan |-> FALSE],
   routing |-> EmptyTable, in_gains |-> ZeroChan, in_mutes |-> [i \in Chan |-> FALSE],
   out_gains |-> [o \in Outs |-> 0], out_mutes |-> [o \in Outs |-> FALSE]]

HistInit ==
  [snap |-> NoSnap,               \* control state when the callback took the control lock
   unsampled_peak |-> ZeroChan,   \* largest peak recorded since the worker last copied
   acc_sumsq |-> NoPeriods,       \* periods summed into _vu_sumsq_temp
   acc_count |-> NoPeriods,       \* periods counted into _vu_count_temp
   tick_sumsq |-> NoPeriods,      \* periods in the worker's sumsq snapshot
   tick_count |-> NoPeriods,      \* periods in the worker's count snapshot
   ticked |-> NoPeriods,          \* periods some tick has counted
   twice |-> FALSE,               \* some period was counted by two ticks
   skipped |-> NoPeriods,         \* periods whose accumulator update was skipped
   processed |-> [i \in Chan |-> <<>>],  \* raw blocks the callback saw, per channel
   enqueued |-> [i \in Chan |-> 0],      \* successful enqueues per channel
   rec_periods |-> 0,             \* periods whose recording test passed
   load_open |-> FALSE,           \* the last change of the route table was a bulk load
   load_before |-> EmptyTable,    \* the table when that load began
   load_goal |-> EmptyTable,      \* the table that load's preset describes
   snap_ctl |-> TRUE,             \* the reader's last table snapshot was a complete table
   at_signal |-> [i \in Chan |-> <<>>],  \* the queues when stop() signalled the writers
   rec_joined |-> {},             \* writers whose join has returned
   vu_joined |-> FALSE,           \* the metering worker's join has returned
   timed_out |-> FALSE,           \* some writer's join returned with the writer still running
   restarted |-> FALSE,           \* start() was called again after stop()
   lingering |-> {},              \* channels given a new writer while the old one still ran
   vu_lingering |-> FALSE,        \* a new metering worker was started while the old one still ran
   tick_raised |-> FALSE,         \* some tick of the metering worker raised
   restart_period |-> 0,          \* the periods begun before that call
   old_files |-> [i \in Chan |-> <<>>], \* the files of the session stop() ended
   escaped |-> FALSE,             \* an exception has left the callback
   api_selected |-> 0]            \* the channel of the last select request answered ok

\* A plausible slip: the index stored as given.
Unclamped(k) == k

\* max(0, min(self.num_inputs - 1, k)): an index clamped into the inputs.
ClampSelected(k) == Max(0, Min(NumInputs - 1, k))

\* start()'s auto-connect frame before start() is called.
ConnIdle ==
  [pc |-> "idle", attempt |-> 0, i |-> 0, n |-> 0, slept |-> 0,
   in_polls |-> 0, out_polls |-> 0, in_found |-> FALSE, out_found |-> FALSE,
   in_tried |-> {}, in_made |-> {}, out_tried |-> {}, out_made |-> {}]

\* DummyEngine.__init__ under a configuration whose 1-based 'selected_channel'
\* is c.
DummyNew(c) ==
  [selected_ch |-> Max(0, Min(NumInputs - 1, c - 1)),
   gains |-> [i \in Chan |-> Unity],
   mutes |-> [i \in Chan |-> FALSE],
   vu_peak |-> ZeroChan, vu_rms |-> ZeroChan, _rec_drop_counts |-> ZeroChan]

\* ------------------------------------------------------ port registration

\* A plausible slip: the numbered ports named by their 0-based index.
OutNameZeroBased(i) ==
  IF i = 0 THEN "out_l" ELSE IF i = 1 THEN "out_r" ELSE "out_" \o ToString(i)

\* The name of output port i (0-based) in the multi-channel branch.
OutName(i) ==
  IF i = 0 THEN "out_l" ELSE IF i = 1 THEN "out_r" ELSE "out_" \o ToString(i + 1)

\* f'in_{i + 1}'
InName(i) == "in_" \o ToString(i + 1)

\* The registration frame of an engine with n inputs and m outputs before
\* the first port is registered.
PortsNew(n, m) ==
  [pc |-> "inputs", num_inputs |-> n, num_outputs |-> m, i |-> 0,
   inports |-> <<>>, outports |-> <<>>, o |-> 0, writes |-> {}]

RECURSIVE OutPortsUpTo(_)
OutPortsUpTo(m) == IF m = 0 THEN <<>> ELSE Append(OutPortsUpTo(m - 1), OutName(m - 1))

\* The frame once __init__ has registered every port.
PortsBuilt(n, m) ==
  [PortsNew(n, m) EXCEPT !.pc = "done",
                         !.inports = [k \in 1 .. n |-> InName(k - 1)],
                         !.outports = IF m = 2 THEN <<"out_l", "out_r">> ELSE OutPortsUpTo(m)]

\* The script's and the server's frames before either runs.
FeedIdle == [pc |-> "idle"]

AppIdle == [pc |-> "idle"]

\* What __init__ creates: the transport client, the ports, the recording
\* queues, and the process callback's registration.
Built == {"client", "ports", "queues", "callback"}

\* The values __init__ gives the engine's fields under a configuration drawn
\* from E, R, W and, for the 1-based 'selected_channel', S.
EngineFields(E, R, W, S) ==
  /\ engine \in E
  /\ record_enabled \in R
  /\ wave \in W
  /\ active = FALSE
  /\ closed = FALSE
  /\ stopper = StopIdle
  /\ period = 0
  /\ _lock = "free"
  /\ waiting = [t \in Threads |-> ""]
  /\ \E c \in S : selected_ch = ClampSelected(c - 1) /\ dummy = DummyNew(c)
  /\ gains = [i \in Chan |-> Unity]
  /\ mutes = [i \in Chan |-> FALSE]
  /\ routing_matrix = EmptyTable
  /\ input_gains = [i \in Chan |-> Unity]
  /\ input_mutes = [i \in Chan |-> FALSE]
  /\ output_gains = [o \in Outs |-> Unity]
  /\ output_mutes = [o \in Outs |-> FALSE]
  /\ vu_peak_in = ZeroChan
  /\ vu_rms_in = ZeroChan
  /\ vu_peak_out = [o \in Outs |-> 0]
  /\ vu_rms_out = [o \in Outs |-> 0]
  /\ _vu_peak_temp = ZeroChan
  /\ _vu_sumsq_temp = ZeroChan
  /\ _vu_count_temp = ZeroChan
  /\ _vu_stats_lock = "free"
  /\ _vu_pub_lock = "free"
  /\ _vu_peak_smooth = ZeroChan
  /\ _vu_rms_smooth = ZeroChan
  /\ vu_peak = ZeroChan
  /\ vu_rms = ZeroChan
  /\ _vu_started = FALSE
  /\ _vu_stop = FALSE
  /\ ticks = 0
  /\ _rec_queues = [i \in Chan |-> <<>>]
  /\ _rec_drop_counts = ZeroChan
  /\ _rec_started = FALSE
  /\ _rec_stop = FALSE
  /\ files = [i \in Chan |-> <<>>]
  /\ outports = [o \in Outs |-> Silence]
  /\ rt = RtIdle
  /\ ctl = CtlIdle
  /\ vu = VuIdle
  /\ rec = [i \in Chan |-> RecIdle]
  /\ hist = HistInit
  /\ conn = ConnIdle

\* The engine's own state after construction (__init__).
EngineBuilt(E, R, W, S) ==
  /\ EngineFields(E, R, W, S)
  /\ jack = TRUE
  /\ built = Built
  /\ main = "constructed"

\* The feeder script not run and no metering socket open.
SideIdle == feed = FeedIdle /\ app_state = AppIdle

\* The state after construction, the ports registered, nothing else running.
InitEngine(E, R, W, S) ==
  /\ EngineBuilt(E, R, W, S)
  /\ ports = PortsBuilt(NumInputs, NumOutputs)
  /\ SideIdle

\* The state after construction with both auto-connect options switched off.
InitConfig(E, R, W, S) ==
  /\ InitEngine(E, R, W, S)
  /\ auto_connect_capture = FALSE
  /\ auto_connect_playback = FALSE
  /\ physical = 0

\* The same with 'selected_channel' left at its default, 1.
InitWith(E, R, W) == InitConfig(E, R, W, {1})

\* The signals on the capture ports: a different one on each.
OneWave == {[i \in Chan |-> i + 1]}

\* ----------------------------------------------------------------- start()

\* -------------------------------------------------------------- __init__

\* A plausible slip: the test of the import left out.
NewCheckSkipped ==
  /\ main = "new"
  /\ main' = "init_client"
  /\ UNCHANGED <<cfgVars, sideVars, connVars, built, dummy, active, closed, stopper, period, lockVars, simpleCtl,
                 matrixCtl, matrixVu, vuAcc, vuLocks, vuPub, vuThread, recVars, outports, rt,
                 ctl, hist>>

\* `if jack is None: raise RuntimeError(...)`, the constructor's first statement.
NewCheck ==
  /\ main = "new"
  /\ main' = IF jack THEN "init_client" ELSE "raised"
  /\ UNCHANGED <<cfgVars, sideVars, connVars, built, dummy, active, closed, stopper, period, lockVars, simpleCtl,
                 matrixCtl, matrixVu, vuAcc, vuLocks, vuPub, vuThread, recVars, outports, rt,
                 ctl, hist>>

\* The constructor's later steps in their order: jack.Client(...), which may
\* raise when no server can be reached; the ports registered; the queues
\* created; set_process_callback.
NewStep(from, made, to) ==
  /\ main = from
  /\ \/ main' = to /\ built' = built \cup {made}
     \/ from = "init_client" /\ main' = "raised" /\ UNCHANGED built
  /\ UNCHANGED <<cfgVars, sideVars, connVars, dummy, active, closed, stopper, period, lockVars, simpleCtl,
                 matrixCtl, matrixVu, vuAcc, vuLocks, vuPub, vuThread, recVars, outports, rt,
                 ctl, hist>>

Construct ==
  \/ NewCheck
  \/ NewStep("init_client", "client", "init_ports")
  \/ NewStep("init_ports", "ports", "init_queues")
  \/ NewStep("init_queues", "queues", "init_callback")
  \/ NewStep("init_callback", "callback", "constructed")

\* `if self.auto_connect_playback: self._auto_connect_outputs()`
ConnAfterInputs == IF auto_connect_playback THEN "out_get" ELSE "done"

\* `if self.auto_connect_capture: self._auto_connect_inputs()`
ConnFirst == IF auto_connect_capture THEN "in_get" ELSE ConnAfterInputs

\* client.activate(): from here on the transport may invoke the callback.
StartActivate ==
  /\ main = "constructed"
  /\ main' = "activated"
  /\ active' = TRUE
  /\ conn' = [ConnIdle EXCEPT !.pc = ConnFirst]
  /\ UNCHANGED <<cfgVars, sideVars, built, dummy, auto_connect_capture, auto_connect_playback, physical, closed, stopper, period, lockVars, simpleCtl, matrixCtl, matrixVu, vuAcc, vuLocks,
                 vuPub, vuThread, recVars, outports, rt, ctl, hist>>

\* ------------------------------------------------------------- auto-connect

\* max_retries and retry_delay (in milliseconds) of _auto_connect_inputs.
max_retries == 3

retry_delay == 500

\* What the connect steps leave alone: everything but start()'s frame.
ConnFrame ==
  UNCHANGED <<cfgVars, sideVars, built, dummy, auto_connect_capture, auto_connect_playback, physical, sessVars, period,
              lockVars, simpleCtl, matrixCtl, matrixVu, vuAcc, vuLocks, vuPub, vuThread,
              recVars, outports, rt, ctl, hist>>

\* len(cap_ports) once filtered: the physical ports (all taken to match by
\* name), or, when these are fewer than num_inputs, every output port of the
\* transport, this client's own among them.
CaptureCandidates == IF physical < NumInputs THEN physical + NumOutputs ELSE physical

\* len(pb_ports) once filtered, likewise.
PlaybackCandidates == IF physical < NumOutputs THEN physical + NumInputs ELSE physical

\* One pass of `for attempt in range(max_retries)` up to the connect loop:
\* get_ports; without physical ports, sleep and retry, or return after the
\* last attempt.
ConnInGet ==
  /\ engine = "simple"
  /\ conn.pc = "in_get"
  /\ conn' = IF physical = 0
             THEN [conn EXCEPT !.in_polls = @ + 1,
                               !.pc = IF conn.attempt < max_retries - 1
                                      THEN "in_sleep" ELSE ConnAfterInputs]
             ELSE [conn EXCEPT !.in_polls = @ + 1, !.in_found = TRUE, !.i = 0,
                               !.n = Min(NumInputs, CaptureCandidates),
                               !.pc = "in_connect"]
  /\ ConnFrame

\* time.sleep(retry_delay); continue
ConnInSleep ==
  /\ conn.pc = "in_sleep"
  /\ conn' = [conn EXCEPT !.slept = @ + retry_delay, !.attempt = @ + 1, !.pc = "in_get"]
  /\ ConnFrame

\* The next value of start()'s frame after the connect loop's body for port
\* conn.i: the next port, or the return when the ports are used up.
ConnNextPort(c, after) ==
  IF c.i + 1 < c.n THEN [c EXCEPT !.i = @ + 1] ELSE [c EXCEPT !.i = 0, !.pc = after]

\* A plausible slip: the JackError of one connect left to leave the loop.
ConnInConnectBreaking ==
  /\ conn.pc = "in_connect"
  /\ \E ok \in BOOLEAN :
       conn' = IF ok
               THEN ConnNextPort([conn EXCEPT !.in_tried = @ \cup {conn.i},
                                              !.in_made = @ \cup {conn.i}], ConnAfterInputs)
               ELSE [conn EXCEPT !.in_tried = @ \cup {conn.i}, !.i = 0, !.pc = ConnAfterInputs]
  /\ ConnFrame

\* client.connect(cap_ports[i], self.inports[i]) in its try: it connects, or
\* raises jack.JackError, which is logged; either way the loop goes on.
ConnInConnect ==
  /\ conn.pc = "in_connect"
  /\ \E ok \in BOOLEAN :
       conn' = ConnNextPort([conn EXCEPT !.in_tried = @ \cup {conn.i},
                                         !.in_made = IF ok THEN @ \cup {conn.i} ELSE @],
                            ConnAfterInputs)
  /\ ConnFrame

\* _auto_connect_outputs up to its connect loop: get_ports, once.
ConnOutGet ==
  /\ engine = "simple"
  /\ conn.pc = "out_get"
  /\ conn' = [conn EXCEPT !.out_polls = @ + 1, !.out_found = physical > 0, !.i = 0,
                          !.n = Min(NumOutputs, PlaybackCandidates),
                          !.pc = "out_connect"]
  /\ ConnFrame

\* client.connect(self.outports[i], pb_ports[i]) in its try: a JackError is
\* ignored.
ConnOutConnect ==
  /\ conn.pc = "out_connect"
  /\ \E ok \in BOOLEAN :
       conn' = ConnNextPort([conn EXCEPT !.out_tried = @ \cup {conn.i},
                                         !.out_made = IF ok THEN @ \cup {conn.i} ELSE @],
                            "done")
  /\ ConnFrame

\* The audio device's ports come up while start() runs.
PortsAppear ==
  /\ main = "activated"
  /\ physical = 0
  /\ physical' \in 1 .. NumInputs
  /\ UNCHANGED <<cfgVars, sideVars, built, dummy, auto_connect_capture, auto_connect_playback, conn, sessVars, period,
                 lockVars, simpleCtl, matrixCtl, matrixVu, vuAcc, vuLocks, vuPub, vuThread,
                 recVars, outports, rt, ctl, hist>>

ConnectSteps == ConnInGet \/ ConnInSleep \/ ConnInConnect \/ ConnOutGet \/ ConnOutConnect

\* _start_recording_threads(), when recording is enabled and not yet started:
\* a new session's files, one writer per channel, then the started flag.
StartRecording ==
  /\ main = "activated"
  /\ conn.pc = "done"
  /\ main' = IF engine = "simple" THEN "recording" ELSE "started"
  /\ IF record_enabled /\ ~_rec_started
     THEN /\ _rec_stop' = FALSE
          /\ files' = [i \in Chan |-> <<>>]
          /\ rec' = [i \in Chan |-> [pc |-> "loop", block |-> <<>>]]
          /\ _rec_started' = TRUE
          /\ hist' = [hist EXCEPT !.lingering = @ \cup {i \in Chan : rec[i].pc \notin {"off", "done"}}]
     ELSE UNCHANGED <<_rec_stop, files, rec, _rec_started, hist>>
  /\ UNCHANGED <<cfgVars, sideVars, connVars, built, dummy, active, closed, stopper, period, lockVars, simpleCtl, matrixCtl, matrixVu, vuAcc,
                 vuLocks, vuPub, vuThread, _rec_queues, _rec_drop_counts, outports, rt, ctl>>

\* _start_vu_thread(), when metering is not yet started (AudioEngine only).
StartVu ==
  /\ main = "recording"
  /\ main' = "started"
  /\ IF ~_vu_started
     THEN /\ _vu_stop' = FALSE
          /\ vu' = [vu EXCEPT !.pc = "sleep"]
          /\ _vu_started' = TRUE
          /\ hist' = [hist EXCEPT !.vu_lingering = @ \/ vu.pc \notin {"off", "done"}]
     ELSE UNCHANGED <<vu, _vu_started, _vu_stop, hist>>
  /\ UNCHANGED <<cfgVars, sideVars, connVars, built, dummy, active, closed, stopper, period, lockVars, simpleCtl, matrixCtl, matrixVu, vuAcc,
                 vuLocks, vuPub, ticks, recVars, outports, rt, ctl>>

\* ------------------------------------------------- AudioEngine._process

\* The transport invokes the callback for the next period.
CbBegin(limit) ==
  /\ active
  /\ rt.pc = "idle"
  /\ period < limit
  /\ period' = period + 1
  /\ rt' = [rt EXCEPT !.pc = "lock"]
  /\ hist' = [hist EXCEPT !.processed = [i \in Chan |->
                 Append(hist.processed[i], <<period + 1, Block(Waves[wave[i]], period + 1)>>)]]
  /\ UNCHANGED <<cfgVars, sideVars, connVars, built, dummy, sessVars, lockVars, simpleCtl, matrixCtl, matrixVu, vuAcc, vuLocks,
                 vuPub, vuThread, recVars, outports, ctl>>

\* The same, start() reaching the start of the writers within `early` periods
\* of the activation.
CbBeginRec(early, limit) ==
  /\ _rec_started \/ period < early
  /\ CbBegin(limit)

\* `with self._lock:` at the top of _process: a blocking acquire.
CbLock ==
  /\ rt.pc = "lock"
  /\ \/ /\ _lock = "free"
        /\ _lock' = "rt"
        /\ waiting' = [waiting EXCEPT !["rt"] = ""]
        /\ rt' = [rt EXCEPT !.pc = IF engine = "simple" THEN "snap_sel" ELSE "m_snap_routing"]
        /\ hist' = [hist EXCEPT !.snap = ControlState]
     \/ /\ _lock # "free"
        /\ waiting["rt"] = ""
        /\ waiting' = [waiting EXCEPT !["rt"] = "_lock"]
        /\ UNCHANGED <<_lock, rt, hist>>
  /\ UNCHANGED <<cfgVars, sideVars, connVars, built, dummy, sessVars, period, simpleCtl, matrixCtl, matrixVu, vuAcc, vuLocks,
                 vuPub, vuThread, recVars, outports, ctl>>

\* sel = int(self.selected_ch)
CbSnapSel ==
  /\ rt.pc = "snap_sel"
  /\ rt' = [rt EXCEPT !.sel = selected_ch, !.pc = "snap_gains"]
  /\ UNCHANGED <<cfgVars, sideVars, connVars, built, dummy, sessVars, period, lockVars, simpleCtl, matrixCtl, matrixVu, vuAcc,
                 vuLocks, vuPub, vuThread, recVars, outports, ctl, hist>>

\* gains = self.gains.copy()
CbSnapGains ==
  /\ rt.pc = "snap_gains"
  /\ rt' = [rt EXCEPT !.gains = gains, !.pc = "snap_mutes"]
  /\ UNCHANGED <<cfgVars, sideVars, connVars, built, dummy, sessVars, period, lockVars, simpleCtl, matrixCtl, matrixVu, vuAcc,
                 vuLocks, vuPub, vuThread, recVars, outports, ctl, hist>>

\* A plausible slip: the snapshot's lock not released before the channel loop.
CbSnapMutesKeepLock ==
  /\ rt.pc = "snap_mutes"
  /\ rt' = [rt EXCEPT !.mutes = mutes, !.pc = "peak_rd", !.i = 0]
  /\ UNCHANGED <<cfgVars, sideVars, connVars, built, dummy, sessVars, period, lockVars, simpleCtl, matrixCtl, matrixVu, vuAcc,
                 vuLocks, vuPub, vuThread, recVars, outports, ctl, hist>>

\* mutes = self.mutes.copy(), and the end of the with block.
CbSnapMutes ==
  /\ rt.pc = "snap_mutes"
  /\ rt' = [rt EXCEPT !.mutes = mutes, !.pc = "peak_rd", !.i = 0]
  /\ _lock' = "free"
  /\ UNCHANGED <<cfgVars, sideVars, connVars, built, dummy, sessVars, period, waiting, simpleCtl, matrixCtl, matrixVu, vuAcc,
                 vuLocks, vuPub, vuThread, recVars, outports, ctl, hist>>

\* A plausible slip: the live control fields used in place of the snapshot.
PostGainLive(i) == ScaleBlock(Inport(i), IF mutes[i] THEN 0 ELSE gains[i])

\* g = 0.0 if mutes[i] else gains[i]; post_gain = buf * g
PostGain(i) == ScaleBlock(Inport(i), IF rt.mutes[i] THEN 0 ELSE rt.gains[i])

\* A plausible slip: route_buf assigned for every channel, so that the last
\* channel's signal is the one routed.
RtEndChannelLast(r) ==
  LET r1 == [r EXCEPT !.route_buf = PostGain(r.i)]
  IN IF r.i + 1 < NumInputs
     THEN [r1 EXCEPT !.i = r.i + 1, !.pc = "peak_rd"]
     ELSE [r1 EXCEPT !.i = 0, !.pc = "route"]

\* The end of the body of `for i, inport in enumerate(self.inports)`:
\* `if i == sel: route_buf = post_gain`, then the next channel or the routing.
RtEndChannel(r) ==
  LET r1 == IF r.i = r.sel THEN [r EXCEPT !.route_buf = PostGain(r.i)] ELSE r
  IN IF r.i + 1 < NumInputs
     THEN [r1 EXCEPT !.i = r.i + 1, !.pc = "peak_rd"]
     ELSE [r1 EXCEPT !.i = 0, !.pc = "route"]

\* The read of self._vu_peak_temp[i] in max(self._vu_peak_temp[i], current_peak).
CbPeakRead ==
  /\ rt.pc = "peak_rd"
  /\ rt' = [rt EXCEPT !.old_peak = _vu_peak_temp[rt.i], !.pc = "peak_wr"]
  /\ UNCHANGED <<cfgVars, sideVars, connVars, built, dummy, sessVars, period, lockVars, simpleCtl, matrixCtl, matrixVu, vuAcc,
                 vuLocks, vuPub, vuThread, recVars, outports, ctl, hist>>

\* self._vu_peak_temp[i] = max(<the value read>, current_peak)
CbPeakWrite ==
  /\ rt.pc = "peak_wr"
  /\ _vu_peak_temp' = [_vu_peak_temp EXCEPT ![rt.i] = Max(rt.old_peak, Peak(PostGain(rt.i)))]
  /\ rt' = [rt EXCEPT !.pc = "vu_try"]
  /\ hist' = [hist EXCEPT !.unsampled_peak[rt.i] = Max(@, Peak(PostGain(rt.i)))]
  /\ UNCHANGED <<cfgVars, sideVars, connVars, built, dummy, sessVars, period, lockVars, simpleCtl, matrixCtl, matrixVu,
                 _vu_sumsq_temp, _vu_count_temp, vuLocks, vuPub, vuThread, recVars, outports,
                 ctl>>

\* A plausible slip: `with self._vu_stats_lock:` in the callback, a blocking acquire.
CbStatsAcquireBlocking ==
  /\ rt.pc = "vu_try"
  /\ \/ /\ _vu_stats_lock = "free"
        /\ _vu_stats_lock' = "rt"
        /\ waiting' = [waiting EXCEPT !["rt"] = ""]
        /\ rt' = [rt EXCEPT !.pc = "vu_sumsq"]
     \/ /\ _vu_stats_lock # "free"
        /\ waiting["rt"] = ""
        /\ waiting' = [waiting EXCEPT !["rt"] = "_vu_stats_lock"]
        /\ UNCHANGED <<_vu_stats_lock, rt>>
  /\ UNCHANGED <<cfgVars, sideVars, connVars, built, dummy, sessVars, period, _lock, simpleCtl, matrixCtl, matrixVu, vuAcc,
                 _vu_pub_lock, vuPub, vuThread, recVars, outports, ctl, hist>>

\* if self._vu_stats_lock.acquire(False): taken when free; when held, the
\* update of this channel is skipped for the period.
CbStatsTryAcquire ==
  /\ rt.pc = "vu_try"
  /\ \/ /\ _vu_stats_lock = "free"
        /\ _vu_stats_lock' = "rt"
        /\ rt' = [rt EXCEPT !.pc = "vu_sumsq"]
        /\ UNCHANGED hist
     \/ /\ _vu_stats_lock # "free"
        /\ rt' = RtEndChannel(rt)
        /\ hist' = [hist EXCEPT !.skipped[rt.i] = @ \cup {period}]
        /\ UNCHANGED _vu_stats_lock
  /\ UNCHANGED <<cfgVars, sideVars, connVars, built, dummy, sessVars, period, lockVars, simpleCtl, matrixCtl, matrixVu, vuAcc,
                 _vu_pub_lock, vuPub, vuThread, recVars, outports, ctl>>

\* self._vu_sumsq_temp[i] += float(np.dot(post_gain, post_gain))
CbSumsq ==
  /\ rt.pc = "vu_sumsq"
  /\ _vu_sumsq_temp' = [_vu_sumsq_temp EXCEPT ![rt.i] = @ + Dot(PostGain(rt.i))]
  /\ rt' = [rt EXCEPT !.pc = "vu_count"]
  /\ hist' = [hist EXCEPT !.acc_sumsq[rt.i] = @ \cup {period}]
  /\ UNCHANGED <<cfgVars, sideVars, connVars, built, dummy, sessVars, period, lockVars, simpleCtl, matrixCtl, matrixVu,
                 _vu_peak_temp, _vu_count_temp, vuLocks, vuPub, vuThread, recVars, outports,
                 ctl>>

\* self._vu_count_temp[i] += frames, and the release in the finally clause.
CbCount ==
  /\ rt.pc = "vu_count"
  /\ _vu_count_temp' = [_vu_count_temp EXCEPT ![rt.i] = @ + Frames]
  /\ _vu_stats_lock' = "free"
  /\ rt' = RtEndChannel(rt)
  /\ hist' = [hist EXCEPT !.acc_count[rt.i] = @ \cup {period}]
  /\ UNCHANGED <<cfgVars, sideVars, connVars, built, dummy, sessVars, period, lockVars, simpleCtl, matrixCtl, matrixVu,
                 _vu_peak_temp, _vu_sumsq_temp, _vu_pub_lock, vuPub, vuThread, recVars,
                 outports, ctl>>

\* Route the selected channel to every output; silence when nothing is selected.
CbRoute ==
  /\ rt.pc = "route"
  /\ outports' = [o \in Outs |-> IF rt.route_buf = <<>> THEN Silence ELSE rt.route_buf]
  /\ rt' = [rt EXCEPT !.pc = "rec_check"]
  /\ UNCHANGED <<cfgVars, sideVars, connVars, built, dummy, sessVars, period, lockVars, simpleCtl, matrixCtl, matrixVu, vuAcc,
                 vuLocks, vuPub, vuThread, recVars, ctl, hist>>

\* What the callback returns to: no locals, ready for the next period.
RtReturn == RtIdle

\* The end of the body of the recording loop: the next channel, or (matrix
\* engine) the meter publication, or the return.
RtEndPut(r) ==
  IF r.i + 1 < NumInputs THEN [r EXCEPT !.i = r.i + 1, !.pc = "put"]
  ELSE IF engine = "simple" THEN RtReturn
  ELSE [r EXCEPT !.pc = "m_vu_lock", !.i = 0]

\* if self.record_enabled and self._rec_started:
CbRecCheck ==
  /\ rt.pc = "rec_check"
  /\ rt' = IF record_enabled /\ _rec_started THEN [rt EXCEPT !.pc = "put", !.i = 0]
           ELSE IF engine = "simple" THEN RtReturn
           ELSE [rt EXCEPT !.pc = "m_vu_lock", !.i = 0]
  /\ hist' = IF record_enabled /\ _rec_started
             THEN [hist EXCEPT !.rec_periods = @ + 1] ELSE hist
  /\ UNCHANGED <<cfgVars, sideVars, connVars, built, dummy, sessVars, period, lockVars, simpleCtl, matrixCtl, matrixVu, vuAcc,
                 vuLocks, vuPub, vuThread, recVars, outports, ctl>>

\* A plausible slip: the post-gain buffer enqueued in place of the raw one.
RawCopyPostGain(i) == ScaleBlock(Inport(i), IF rt.mutes[i] THEN 0 ELSE rt.gains[i])

\* raw = inport.get_array().copy()
RawCopy(i) == Inport(i)

\* The capacity of a channel's queue: the configured size in AudioEngine, a
\* fixed one in MatrixAudioEngine.
QueueSize == IF engine = "simple" THEN record_queue_size ELSE MatrixQueueSize

\* A plausible slip: the queues built without maxsize, so that a put always
\* succeeds.
CbPutUnbounded ==
  /\ rt.pc = "put"
  /\ _rec_queues' = [_rec_queues EXCEPT ![rt.i] = Append(@, <<period, RawCopy(rt.i)>>)]
  /\ rt' = RtEndPut(rt)
  /\ hist' = [hist EXCEPT !.enqueued[rt.i] = @ + 1]
  /\ UNCHANGED <<cfgVars, sideVars, connVars, built, dummy, sessVars, period, lockVars, simpleCtl, matrixCtl, matrixVu, vuAcc,
                 vuLocks, vuPub, vuThread, _rec_drop_counts, _rec_started, _rec_stop, files,
                 rec, outports, ctl>>

\* A plausible slip: queue.Full swallowed, the buffer lost without a count.
CbPutSilentDrop ==
  /\ rt.pc = "put"
  /\ IF Len(_rec_queues[rt.i]) < QueueSize
     THEN /\ _rec_queues' = [_rec_queues EXCEPT ![rt.i] = Append(@, <<period, RawCopy(rt.i)>>)]
          /\ hist' = [hist EXCEPT !.enqueued[rt.i] = @ + 1]
     ELSE UNCHANGED <<_rec_queues, hist>>
  /\ rt' = RtEndPut(rt)
  /\ UNCHANGED <<cfgVars, sideVars, connVars, built, dummy, sessVars, period, lockVars, simpleCtl, matrixCtl, matrixVu, vuAcc,
                 vuLocks, vuPub, vuThread, _rec_drop_counts, _rec_started, _rec_stop, files,
                 rec, outports, ctl>>

\* self._rec_queues[i].put_nowait(raw): enqueued, or queue.Full is raised.
CbPut ==
  /\ rt.pc = "put"
  /\ IF Len(_rec_queues[rt.i]) < QueueSize
     THEN /\ _rec_queues' = [_rec_queues EXCEPT ![rt.i] = Append(@, <<period, RawCopy(rt.i)>>)]
          /\ rt' = RtEndPut(rt)
          /\ hist' = [hist EXCEPT !.enqueued[rt.i] = @ + 1]
     ELSE /\ rt' = [rt EXCEPT !.pc = "drop_lock"]
          /\ UNCHANGED <<_rec_queues, hist>>
  /\ UNCHANGED <<cfgVars, sideVars, connVars, built, dummy, sessVars, period, lockVars, simpleCtl, matrixCtl, matrixVu, vuAcc,
                 vuLocks, vuPub, vuThread, _rec_drop_counts, _rec_started, _rec_stop, files,
                 rec, outports, ctl>>

\* except queue.Full: `with self._lock:`, a blocking acquire of the control lock.
CbDropLock ==
  /\ rt.pc = "drop_lock"
  /\ \/ /\ _lock = "free"
        /\ _lock' = "rt"
        /\ waiting' = [waiting EXCEPT !["rt"] = ""]
        /\ rt' = [rt EXCEPT !.pc = "drop_inc"]
     \/ /\ _lock # "free"
        /\ waiting["rt"] = ""
        /\ waiting' = [waiting EXCEPT !["rt"] = "_lock"]
        /\ UNCHANGED <<_lock, rt>>
  /\ UNCHANGED <<cfgVars, sideVars, connVars, built, dummy, sessVars, period, simpleCtl, matrixCtl, matrixVu, vuAcc, vuLocks,
                 vuPub, vuThread, recVars, outports, ctl, hist>>

\* A plausible slip: the whole counter array incremented, not element i.
CbDropIncAll ==
  /\ rt.pc = "drop_inc"
  /\ _rec_drop_counts' = [i \in Chan |-> _rec_drop_counts[i] + 1]
  /\ _lock' = "free"
  /\ rt' = RtEndPut(rt)
  /\ UNCHANGED <<cfgVars, sideVars, connVars, built, dummy, sessVars, period, waiting, simpleCtl, matrixCtl, matrixVu, vuAcc,
                 vuLocks, vuPub, vuThread, _rec_queues, _rec_started, _rec_stop, files, rec,
                 outports, ctl, hist>>

\* self._rec_drop_counts[i] += 1, and the end of the with block.
CbDropInc ==
  /\ rt.pc = "drop_inc"
  /\ _rec_drop_counts' = [_rec_drop_counts EXCEPT ![rt.i] = @ + 1]
  /\ _lock' = "free"
  /\ rt' = RtEndPut(rt)
  /\ UNCHANGED <<cfgVars, sideVars, connVars, built, dummy, sessVars, period, waiting, simpleCtl, matrixCtl, matrixVu, vuAcc,
                 vuLocks, vuPub, vuThread, _rec_queues, _rec_started, _rec_stop, files, rec,
                 outports, ctl, hist>>

\* The simple engine's callback, one step of it.
SimpleProcess ==
  \/ CbSnapSel \/ CbSnapGains \/ CbSnapMutes
  \/ CbPeakRead \/ CbPeakWrite \/ CbStatsTryAcquire \/ CbSumsq \/ CbCount
  \/ CbRoute

\* The recording part of the callback, one step of it.
RecordProcess == CbRecCheck \/ CbPut \/ CbDropLock \/ CbDropInc

\* ------------------------------------------------------ the control plane

\* A control-plane caller enters a method of the engine.
CtlCall(op, a, b, c) ==
  /\ ctl.pc = "idle"
  /\ ctl' = [ctl EXCEPT !.pc = "lock", !.op = op, !.a = a, !.b = b, !.c = c]
  /\ UNCHANGED <<cfgVars, sideVars, connVars, built, dummy, sessVars, period, lockVars, simpleCtl, matrixCtl, matrixVu, vuAcc,
                 vuLocks, vuPub, vuThread, recVars, outports, rt, hist>>

\* `with self._lock:` of a setter or reader: a blocking acquire.
CtlLock ==
  /\ ctl.pc = "lock"
  /\ \/ /\ _lock = "free"
        /\ _lock' = "ctl"
        /\ waiting' = [waiting EXCEPT !["ctl"] = ""]
        /\ ctl' = [ctl EXCEPT !.pc = "body"]
     \/ /\ _lock # "free"
        /\ waiting["ctl"] = ""
        /\ waiting' = [waiting EXCEPT !["ctl"] = "_lock"]
        /\ UNCHANGED <<_lock, ctl>>
  /\ UNCHANGED <<cfgVars, sideVars, connVars, built, dummy, sessVars, period, simpleCtl, matrixCtl, matrixVu, vuAcc, vuLocks,
                 vuPub, vuThread, recVars, outports, rt, hist>>

\* Channel indices the control surface passes: below the range, valid, and
\* above the range.
IndexArgs == {0 - 1, 1, NumInputs}

\* Linear gains: negative and amplifying.
GainArgs == {0 - 500, 2000}

\* set_selected_channel(ch_index): under the control lock, clamped into range.
\* The with block holds one assignment, so the call is one step, taken when
\* the lock is free.
set_selected_channel(ch_index) ==
  /\ ctl.pc = "idle"
  /\ _lock = "free"
  /\ selected_ch' = ClampSelected(ch_index)
  /\ UNCHANGED <<cfgVars, sideVars, connVars, built, sessVars, period, lockVars, gains, mutes, matrixCtl, matrixVu, vuAcc,
                 vuLocks, vuPub, vuThread, recVars, outports, rt, ctl, hist>>

\* A plausible slip: the gain stored as given.
set_gain_linear_unclamped(ch_index, gain) ==
  /\ ctl.pc = "idle"
  /\ _lock = "free"
  /\ gains' = IF 0 <= ch_index /\ ch_index < NumInputs
              THEN [gains EXCEPT ![ch_index] = gain]
              ELSE gains
  /\ UNCHANGED <<cfgVars, sideVars, connVars, built, sessVars, period, lockVars, selected_ch, mutes, matrixCtl, matrixVu,
                 vuAcc, vuLocks, vuPub, vuThread, recVars, outports, rt, ctl, hist>>

\* set_gain_linear(ch_index, gain): a valid index stores max(0.0, gain).
set_gain_linear(ch_index, gain) ==
  /\ ctl.pc = "idle"
  /\ _lock = "free"
  /\ gains' = IF 0 <= ch_index /\ ch_index < NumInputs
              THEN [gains EXCEPT ![ch_index] = Max(0, gain)]
              ELSE gains
  /\ UNCHANGED <<cfgVars, sideVars, connVars, built, sessVars, period, lockVars, selected_ch, mutes, matrixCtl, matrixVu,
                 vuAcc, vuLocks, vuPub, vuThread, recVars, outports, rt, ctl, hist>>

\* db_to_linear: 10 ** (db / 20), db in hundredths of a dB, tabulated for the
\* values the model passes.
db_to_linear(db) ==
  CASE db = 0 - 600 -> 501
    [] db = 600 -> 1995
    [] OTHER -> 1000

\* set_gain_db(ch_index, gain_db)
set_gain_db(ch_index, gain_db) == set_gain_linear(ch_index, db_to_linear(gain_db))

\* A plausible slip: only the upper end of the range tested, a negative index
\* counting from the end of the array.
set_mute_upper_only(ch_index, mute) ==
  /\ ctl.pc = "idle"
  /\ _lock = "free"
  /\ mutes' = IF ch_index < NumInputs
              THEN [mutes EXCEPT ![(ch_index + NumInputs) % NumInputs] = mute]
              ELSE mutes
  /\ UNCHANGED <<cfgVars, sideVars, connVars, built, sessVars, period, lockVars, selected_ch, gains, matrixCtl, matrixVu,
                 vuAcc, vuLocks, vuPub, vuThread, recVars, outports, rt, ctl, hist>>

\* set_mute(ch_index, mute)
set_mute(ch_index, mute) ==
  /\ ctl.pc = "idle"
  /\ _lock = "free"
  /\ mutes' = IF 0 <= ch_index /\ ch_index < NumInputs
              THEN [mutes EXCEPT ![ch_index] = mute]
              ELSE mutes
  /\ UNCHANGED <<cfgVars, sideVars, connVars, built, sessVars, period, lockVars, selected_ch, gains, matrixCtl, matrixVu,
                 vuAcc, vuLocks, vuPub, vuThread, recVars, outports, rt, ctl, hist>>

\* A plausible slip: the with block ending after the control fields, the
\* drop counters read outside it.
GetStateControlShortLock ==
  /\ ctl.pc = "body" /\ ctl.op = "get_state" /\ engine = "simple"
  /\ ctl' = [ctl EXCEPT !.pc = "gs_drops",
                        !.res = [selected_channel |-> selected_ch + 1,
                                 gains_linear |-> gains,
                                 gains_db |-> [i \in Chan |-> linear_to_db(gains[i])],
                                 mutes |-> mutes]]
  /\ _lock' = "free"
  /\ UNCHANGED <<cfgVars, sideVars, connVars, built, dummy, sessVars, period, waiting, simpleCtl, matrixCtl, matrixVu, vuAcc,
                 vuLocks, vuPub, vuThread, recVars, outports, rt, hist>>

\* get_state, under the control lock: the control fields.
GetStateControl ==
  /\ ctl.pc = "body" /\ ctl.op = "get_state" /\ engine = "simple"
  /\ ctl' = [ctl EXCEPT !.pc = "gs_drops",
                        !.res = [selected_channel |-> selected_ch + 1,
                                 gains_linear |-> gains,
                                 gains_db |-> [i \in Chan |-> linear_to_db(gains[i])],
                                 mutes |-> mutes]]
  /\ UNCHANGED <<cfgVars, sideVars, connVars, built, dummy, sessVars, period, lockVars, simpleCtl, matrixCtl, matrixVu, vuAcc,
                 vuLocks, vuPub, vuThread, recVars, outports, rt, hist>>

\* A plausible slip: the meter arrays read under the control lock, which is
\* still held when the publication lock is taken.
GetStateDropsKeepLock ==
  /\ ctl.pc = "gs_drops"
  /\ ctl' = [ctl EXCEPT !.pc = "gs_pub_lock",
                        !.res = [selected_channel |-> ctl.res.selected_channel,
                                 gains_linear |-> ctl.res.gains_linear,
                                 gains_db |-> ctl.res.gains_db, mutes |-> ctl.res.mutes,
                                 recording |-> record_enabled,
                                 rec_dropped_buffers |-> _rec_drop_counts]]
  /\ UNCHANGED <<cfgVars, sideVars, connVars, built, dummy, sessVars, period, lockVars, simpleCtl, matrixCtl, matrixVu, vuAcc,
                 vuLocks, vuPub, vuThread, recVars, outports, rt, hist>>

\* get_state, still under the control lock: recording flag and drop counters;
\* then the end of the with block.
GetStateDrops ==
  /\ ctl.pc = "gs_drops"
  /\ ctl' = [ctl EXCEPT !.pc = "gs_pub_lock",
                        !.res = [selected_channel |-> ctl.res.selected_channel,
                                 gains_linear |-> ctl.res.gains_linear,
                                 gains_db |-> ctl.res.gains_db, mutes |-> ctl.res.mutes,
                                 recording |-> record_enabled,
                                 rec_dropped_buffers |-> _rec_drop_counts]]
  /\ _lock' = "free"
  /\ UNCHANGED <<cfgVars, sideVars, connVars, built, dummy, sessVars, period, waiting, simpleCtl, matrixCtl, matrixVu, vuAcc,
                 vuLocks, vuPub, vuThread, recVars, outports, rt, hist>>

\* get_state: `with self._vu_pub_lock:`, a blocking acquire.
GetStatePubLock ==
  /\ ctl.pc = "gs_pub_lock"
  /\ \/ /\ _vu_pub_lock = "free"
        /\ _vu_pub_lock' = "ctl"
        /\ waiting' = [waiting EXCEPT !["ctl"] = ""]
        /\ ctl' = [ctl EXCEPT !.pc = "gs_vu"]
     \/ /\ _vu_pub_lock # "free"
        /\ waiting["ctl"] = ""
        /\ waiting' = [waiting EXCEPT !["ctl"] = "_vu_pub_lock"]
        /\ UNCHANGED <<_vu_pub_lock, ctl>>
  /\ UNCHANGED <<cfgVars, sideVars, connVars, built, dummy, sessVars, period, _lock, simpleCtl, matrixCtl, matrixVu, vuAcc,
                 _vu_stats_lock, vuPub, vuThread, recVars, outports, rt, hist>>

\* get_state: vu_peak and vu_rms read, the publication lock released, the
\* result returned to the caller.
GetStateVu ==
  /\ ctl.pc = "gs_vu"
  /\ _vu_pub_lock' = "free"
  /\ ctl' = CtlIdle
  /\ UNCHANGED <<cfgVars, sideVars, connVars, built, dummy, sessVars, period, lockVars, simpleCtl, matrixCtl, matrixVu, vuAcc,
                 _vu_stats_lock, vuPub, vuThread, recVars, outports, rt, hist>>

\* The setters the control surface calls on the simple engine.
SimpleSetters ==
  /\ engine = "simple"
  /\ \/ \E k \in IndexArgs : set_selected_channel(k)
     \/ \E k \in IndexArgs, g \in GainArgs : set_gain_linear(k, g)
     \/ \E k \in IndexArgs, m \in BOOLEAN : set_mute(k, m)
  /\ UNCHANGED dummy

\* A setter called by a second control-plane thread, while the first may be
\* inside get_state: its with block is one step, taken when the lock is free.
OtherCallerSets ==
  /\ engine = "simple"
  /\ _lock = "free"
  /\ \/ \E k \in {NumInputs - 1} : selected_ch' = ClampSelected(k) /\ UNCHANGED <<gains, mutes>>
     \/ \E k \in {0}, g \in {500} :
          gains' = [gains EXCEPT ![k] = Max(0, g)] /\ UNCHANGED <<selected_ch, mutes>>
     \/ \E k \in {0}, m \in {TRUE} :
          mutes' = [mutes EXCEPT ![k] = m] /\ UNCHANGED <<selected_ch, gains>>
  /\ UNCHANGED <<cfgVars, sideVars, connVars, built, dummy, sessVars, period, lockVars, matrixCtl, matrixVu,
                 vuAcc, vuLocks, vuPub, vuThread, recVars, outports, rt, ctl, hist>>

\* The indices and the dB values the engine's setters are called with
\* directly: every valid index, one below the range and one above it.
ChannelArgs == (0 - 1) .. NumInputs

DbArgs == {0 - 600, 600}

\* The simple engine's setters called directly, with any index.
SetterCalls ==
  /\ engine = "simple"
  /\ \E k \in ChannelArgs :
       \/ set_selected_channel(k)
       \/ \E g \in GainArgs : set_gain_linear(k, g)
       \/ \E db \in DbArgs : set_gain_db(k, db)
       \/ \E m \in BOOLEAN : set_mute(k, m)
  /\ UNCHANGED dummy

\* The values set_selected_channel is called with, and the 1-based values
\* the configuration and the control surface's requests hold: every valid
\* one, and two below and two above the range.
SelectArgs == (0 - 2) .. (NumInputs + 1)

RequestArgs == (0 - 1) .. (NumInputs + 2)

SelectCalls ==
  /\ engine = "simple"
  /\ \E k \in SelectArgs : set_selected_channel(k)
  /\ UNCHANGED dummy

\* A plausible slip: the request clamped into range, as the engine's setter
\* does, in place of being rejected.
ApiSelectClamping(ch) ==
  /\ ctl.pc = "idle"
  /\ _lock = "free"
  /\ selected_ch' = ClampSelected(ch - 1)
  /\ ctl' = [CtlIdle EXCEPT !.res = [status |-> 200, selected_channel |-> ch]]
  /\ hist' = [hist EXCEPT !.api_selected = ch]
  /\ UNCHANGED <<cfgVars, sideVars, connVars, built, dummy, sessVars, period, lockVars, gains, mutes, matrixCtl, matrixVu, vuAcc,
                 vuLocks, vuPub, vuThread, recVars, outports, rt>>

\* POST /api/select/{ch}: _validate_channel raises the 400 response for a
\* channel outside 1..num_inputs; otherwise engine.set_selected_channel(ch - 1)
\* and the ok response.
ApiSelect(ch) ==
  /\ ctl.pc = "idle"
  /\ IF 1 <= ch /\ ch <= NumInputs
     THEN /\ _lock = "free"
          /\ selected_ch' = ClampSelected(ch - 1)
          /\ ctl' = [CtlIdle EXCEPT !.res = [status |-> 200, selected_channel |-> ch]]
          /\ hist' = [hist EXCEPT !.api_selected = ch]
     ELSE /\ ctl' = [CtlIdle EXCEPT !.res = [status |-> 400, selected_channel |-> ch]]
          /\ UNCHANGED <<selected_ch, hist>>
  /\ UNCHANGED <<cfgVars, sideVars, connVars, built, dummy, sessVars, period, lockVars, gains, mutes, matrixCtl, matrixVu, vuAcc,
                 vuLocks, vuPub, vuThread, recVars, outports, rt>>

\* The JSON bodies of the gain and mute requests: gain in dB, linear gain,
\* both at once, and a body with neither key; mute on, off, and a body
\* without the key.
GainPayloads ==
  { [gain_db |-> 0 - 600], [gain_linear |-> 2000],
    [gain_db |-> 600, gain_linear |-> 0 - 500], [volume |-> 1] }

MutePayloads == { [mute |-> TRUE], [mute |-> FALSE], [muted |-> TRUE] }

\* raise HTTPException(status_code=400, ...): the request is answered 400 and
\* nothing of the engine is touched.
Reject(ch) ==
  /\ ctl' = [CtlIdle EXCEPT !.res = [status |-> 400, selected_channel |-> ch]]
  /\ UNCHANGED <<cfgVars, sideVars, connVars, built, dummy, sessVars, period, lockVars, simpleCtl, matrixCtl, matrixVu, vuAcc,
                 vuLocks, vuPub, vuThread, recVars, outports, rt, hist>>

\* A plausible slip: the 1-based channel passed on as the index.
ApiSetGainOneBased(ch, payload) ==
  /\ ctl.pc = "idle"
  /\ IF ~(1 <= ch /\ ch <= NumInputs) THEN Reject(ch)
     ELSE IF "gain_db" \in DOMAIN payload THEN set_gain_db(ch, payload.gain_db)
     ELSE IF "gain_linear" \in DOMAIN payload THEN set_gain_linear(ch, payload.gain_linear)
     ELSE Reject(ch)
  /\ UNCHANGED dummy

\* POST /api/gain/{ch}: idx = _validate_channel(ch), then set_gain_db when
\* the body has 'gain_db', else set_gain_linear when it has 'gain_linear',
\* else the 400 response.
ApiSetGain(ch, payload) ==
  /\ ctl.pc = "idle"
  /\ IF ~(1 <= ch /\ ch <= NumInputs) THEN Reject(ch)
     ELSE IF "gain_db" \in DOMAIN payload THEN set_gain_db(ch - 1, payload.gain_db)
     ELSE IF "gain_linear" \in DOMAIN payload THEN set_gain_linear(ch - 1, payload.gain_linear)
     ELSE Reject(ch)
  /\ UNCHANGED dummy

\* POST /api/mute/{ch}: idx = _validate_channel(ch), the 400 response when
\* the body has no 'mute', else set_mute(idx, bool(payload['mute'])).
ApiSetMute(ch, payload) ==
  /\ ctl.pc = "idle"
  /\ IF ~(1 <= ch /\ ch <= NumInputs) THEN Reject(ch)
     ELSE IF "mute" \notin DOMAIN payload THEN Reject(ch)
     ELSE set_mute(ch - 1, payload.mute)
  /\ UNCHANGED dummy

\* ------------------------------------------------------------ DummyEngine

\* DummyEngine.set_selected_channel
DummySetSelected(d, ch_index) ==
  [d EXCEPT !.selected_ch = Max(0, Min(NumInputs - 1, ch_index))]

\* A plausible slip: the gain stored as given.
DummySetGainLinearUnclamped(d, ch_index, gain) ==
  IF 0 <= ch_index /\ ch_index < NumInputs THEN [d EXCEPT !.gains[ch_index] = gain] ELSE d

\* DummyEngine.set_gain_linear
DummySetGainLinear(d, ch_index, gain) ==
  IF 0 <= ch_index /\ ch_index < NumInputs
  THEN [d EXCEPT !.gains[ch_index] = Max(0, gain)]
  ELSE d

\* DummyEngine.set_gain_db; the module's db_to_linear is the formula of
\* audio_engine.py's, 10 ** (db / 20).
DummySetGainDb(d, ch_index, gain_db) == DummySetGainLinear(d, ch_index, db_to_linear(gain_db))

\* DummyEngine.set_mute
DummySetMute(d, ch_index, mute) ==
  IF 0 <= ch_index /\ ch_index < NumInputs THEN [d EXCEPT !.mutes[ch_index] = mute] ELSE d

\* DummyEngine.get_state
DummyGetState(d) ==
  [selected_channel |-> d.selected_ch + 1,
   gains_linear |-> d.gains,
   gains_db |-> [i \in Chan |-> linear_to_db(d.gains[i])],
   mutes |-> d.mutes,
   vu_peak |-> d.vu_peak, vu_rms |-> d.vu_rms,
   recording |-> FALSE,
   rec_dropped_buffers |-> d._rec_drop_counts]

\* One setter call made on the AudioEngine and on the DummyEngine alike.
PairCalls ==
  /\ engine = "simple"
  /\ \/ \E k \in SelectArgs :
          set_selected_channel(k) /\ dummy' = DummySetSelected(dummy, k)
     \/ \E k \in ChannelArgs, g \in GainArgs :
          set_gain_linear(k, g) /\ dummy' = DummySetGainLinear(dummy, k, g)
     \/ \E k \in ChannelArgs, db \in DbArgs :
          set_gain_db(k, db) /\ dummy' = DummySetGainDb(dummy, k, db)
     \/ \E k \in ChannelArgs, m \in BOOLEAN :
          set_mute(k, m) /\ dummy' = DummySetMute(dummy, k, m)

\* Gain and mute set on the selected channel, as the control surface does.
SelectedSetters ==
  /\ engine = "simple"
  /\ \/ \E g \in GainArgs : set_gain_linear(selected_ch, g)
     \/ \E m \in BOOLEAN : set_mute(selected_ch, m)
  /\ UNCHANGED dummy

\* get_state() is called.
GetStateCall == CtlCall("get_state", 0, 0, 0)

SimpleGetState == GetStateControl \/ GetStateDrops \/ GetStatePubLock \/ GetStateVu

\* ------------------------------------------------------------ _rec_worker

\* A plausible slip: the newest block taken in place of the oldest.
DequeueNewest(q) == [block |-> q[Len(q)], rest |-> SubSeq(q, 1, Len(q) - 1)]

\* queue.Queue.get: the oldest entry.
Dequeue(q) == [block |-> Head(q), rest |-> Tail(q)]

\* One turn of the loop `while not self._rec_stop.is_set()`:
\* block = self._rec_queues[ch_index].get(timeout=0.2), an empty queue timing
\* out and looping; then f.write(block.reshape(-1, 1)), the whole block
\* appended to the channel's file, which no other thread touches.  A writer
\* at "loop" is before the loop test; one at "get" passed the test before the
\* stop event was set and is inside get().
RecWorkerTurn(i) ==
  /\ \/ rec[i].pc = "loop" /\ ~_rec_stop
     \/ rec[i].pc = "get"
  /\ _rec_queues[i] # <<>>
  /\ _rec_queues' = [_rec_queues EXCEPT ![i] = Dequeue(_rec_queues[i]).rest]
  /\ files' = [files EXCEPT ![i] = Append(@, Dequeue(_rec_queues[i]).block)]
  /\ rec' = [rec EXCEPT ![i].pc = "loop"]
  /\ UNCHANGED <<cfgVars, sideVars, connVars, built, dummy, sessVars, period, lockVars, simpleCtl, matrixCtl, matrixVu, vuAcc,
                 vuLocks, vuPub, vuThread, _rec_drop_counts, _rec_started, _rec_stop,
                 outports, rt, ctl, hist>>

\* except queue.Empty: continue, for a writer the stop event found inside
\* get(): back to the loop test.
RecGetTimeout(i) ==
  /\ rec[i].pc = "get"
  /\ _rec_queues[i] = <<>>
  /\ rec' = [rec EXCEPT ![i].pc = "loop"]
  /\ UNCHANGED <<cfgVars, sideVars, connVars, built, dummy, sessVars, period, lockVars, simpleCtl, matrixCtl, matrixVu, vuAcc,
                 vuLocks, vuPub, vuThread, _rec_queues, _rec_drop_counts, _rec_started,
                 _rec_stop, files, outports, rt, ctl, hist>>

\* The loop test finds the stop event set: the loop and the `with
\* sf.SoundFile(...)` block end, the file is closed, the thread exits.
\* Whatever the queue still holds stays in it.
RecExit(i) ==
  /\ rec[i].pc = "loop"
  /\ _rec_stop
  /\ rec' = [rec EXCEPT ![i].pc = "done"]
  /\ UNCHANGED <<cfgVars, sideVars, connVars, built, dummy, sessVars, period, lockVars, simpleCtl, matrixCtl, matrixVu, vuAcc,
                 vuLocks, vuPub, vuThread, _rec_queues, _rec_drop_counts, _rec_started,
                 _rec_stop, files, outports, rt, ctl, hist>>

Writers == \E i \in Chan : RecWorkerTurn(i)

WritersStopping == \E i \in Chan : RecGetTimeout(i) \/ RecExit(i)

\* ------------------------------------------------------------- _vu_worker

\* `while not self._vu_stop.is_set()` passed and time.sleep(vu_interval) is
\* over; peak_temp = self._vu_peak_temp.copy().  A worker at "sleep" is before
\* the loop test; one at "slept" passed the test before the stop event was set.
VuCopyPeak(limit) ==
  /\ \/ vu.pc = "sleep" /\ ~_vu_stop
     \/ vu.pc = "slept"
  /\ ticks < limit
  /\ ticks' = ticks + 1
  /\ vu' = [vu EXCEPT !.peak_temp = _vu_peak_temp, !.pc = "stats_lock"]
  /\ hist' = [hist EXCEPT !.unsampled_peak = ZeroChan]
  /\ UNCHANGED <<cfgVars, sideVars, connVars, built, dummy, sessVars, period, lockVars, simpleCtl, matrixCtl, matrixVu, vuAcc,
                 vuLocks, vuPub, _vu_started, _vu_stop, recVars, outports, rt, ctl>>

\* `with self._vu_stats_lock:` in the worker: a blocking acquire.
VuStatsLock ==
  /\ vu.pc = "stats_lock"
  /\ \/ /\ _vu_stats_lock = "free"
        /\ _vu_stats_lock' = "vu"
        /\ waiting' = [waiting EXCEPT !["vu"] = ""]
        /\ vu' = [vu EXCEPT !.pc = "snapshot"]
     \/ /\ _vu_stats_lock # "free"
        /\ waiting["vu"] = ""
        /\ waiting' = [waiting EXCEPT !["vu"] = "_vu_stats_lock"]
        /\ UNCHANGED <<_vu_stats_lock, vu>>
  /\ UNCHANGED <<cfgVars, sideVars, connVars, built, dummy, sessVars, period, _lock, simpleCtl, matrixCtl, matrixVu, vuAcc,
                 _vu_pub_lock, vuPub, _vu_started, _vu_stop, ticks, recVars, outports, rt, ctl, hist>>

\* sumsq = self._vu_sumsq_temp.copy(); counts = self._vu_count_temp.copy()
VuSnapshot ==
  /\ vu.pc = "snapshot"
  /\ vu' = [vu EXCEPT !.sumsq = _vu_sumsq_temp, !.counts = _vu_count_temp, !.pc = "fill"]
  /\ hist' = [hist EXCEPT !.tick_sumsq = hist.acc_sumsq,
                          !.tick_count = hist.acc_count,
                          !.ticked = [i \in Chan |-> hist.ticked[i] \cup hist.acc_count[i]],
                          !.twice = hist.twice \/
                                    (\E i \in Chan : hist.ticked[i] \cap hist.acc_count[i] # {})]
  /\ UNCHANGED <<cfgVars, sideVars, connVars, built, dummy, sessVars, period, lockVars, simpleCtl, matrixCtl, matrixVu, vuAcc,
                 vuLocks, vuPub, _vu_started, _vu_stop, ticks, recVars, outports, rt, ctl>>

\* A plausible slip: the sample count is not reset with the sum of squares.
VuFillSumsqOnly ==
  /\ vu.pc = "fill"
  /\ _vu_sumsq_temp' = ZeroChan
  /\ vu' = [vu EXCEPT !.pc = "stats_release"]
  /\ hist' = [hist EXCEPT !.acc_sumsq = NoPeriods]
  /\ UNCHANGED <<cfgVars, sideVars, connVars, built, dummy, sessVars, period, lockVars, simpleCtl, matrixCtl, matrixVu,
                 _vu_peak_temp, _vu_count_temp, vuLocks, vuPub, _vu_started, _vu_stop, ticks, recVars,
                 outports, rt, ctl>>

\* self._vu_sumsq_temp.fill(0.0); self._vu_count_temp.fill(0)
VuFill ==
  /\ vu.pc = "fill"
  /\ _vu_sumsq_temp' = ZeroChan
  /\ _vu_count_temp' = ZeroChan
  /\ vu' = [vu EXCEPT !.pc = "stats_release"]
  /\ hist' = [hist EXCEPT !.acc_sumsq = NoPeriods, !.acc_count = NoPeriods]
  /\ UNCHANGED <<cfgVars, sideVars, connVars, built, dummy, sessVars, period, lockVars, simpleCtl, matrixCtl, matrixVu,
                 _vu_peak_temp, vuLocks, vuPub, _vu_started, _vu_stop, ticks, recVars, outports, rt, ctl>>

\* The end of the worker's with block.
VuStatsRelease ==
  /\ vu.pc = "stats_release"
  /\ _vu_stats_lock' = "free"
  /\ vu' = [vu EXCEPT !.pc = "rms"]
  /\ UNCHANGED <<cfgVars, sideVars, connVars, built, dummy, sessVars, period, lockVars, simpleCtl, matrixCtl, matrixVu, vuAcc,
                 _vu_pub_lock, vuPub, _vu_started, _vu_stop, ticks, recVars, outports, rt, ctl, hist>>

\* rms_values[nz] = np.sqrt(sumsq[nz] / counts[nz]) where counts > 0, else 0
RmsValues(sumsq, counts) ==
  [i \in Chan |-> IF counts[i] > 0 THEN ISqrt(sumsq[i] \div counts[i]) ELSE 0]

\* The RMS of the tick and the exponential smoothing of peak and RMS.
VuSmooth ==
  /\ vu.pc = "rms"
  /\ vu' = [vu EXCEPT !.rms_values = RmsValues(vu.sumsq, vu.counts), !.pc = "pub_lock"]
  /\ _vu_peak_smooth' = [i \in Chan |-> Smooth(vu.peak_temp[i], _vu_peak_smooth[i])]
  /\ _vu_rms_smooth' = [i \in Chan |->
                          Smooth(RmsValues(vu.sumsq, vu.counts)[i], _vu_rms_smooth[i])]
  /\ UNCHANGED <<cfgVars, sideVars, connVars, built, dummy, sessVars, period, lockVars, simpleCtl, matrixCtl, matrixVu, vuAcc,
                 vuLocks, vu_peak, vu_rms, _vu_started, _vu_stop, ticks, recVars, outports, rt, ctl,
                 hist>>

\* `with self._vu_pub_lock:` in the worker: a blocking acquire.
VuPubLock ==
  /\ vu.pc = "pub_lock"
  /\ \/ /\ _vu_pub_lock = "free"
        /\ _vu_pub_lock' = "vu"
        /\ waiting' = [waiting EXCEPT !["vu"] = ""]
        /\ vu' = [vu EXCEPT !.pc = "publish"]
     \/ /\ _vu_pub_lock # "free"
        /\ waiting["vu"] = ""
        /\ waiting' = [waiting EXCEPT !["vu"] = "_vu_pub_lock"]
        /\ UNCHANGED <<_vu_pub_lock, vu>>
  /\ UNCHANGED <<cfgVars, sideVars, connVars, built, dummy, sessVars, period, _lock, simpleCtl, matrixCtl, matrixVu, vuAcc,
                 _vu_stats_lock, vuPub, _vu_started, _vu_stop, ticks, recVars, outports, rt, ctl, hist>>

\* self.vu_peak[:] = self._vu_peak_smooth; self.vu_rms[:] = self._vu_rms_smooth,
\* and the end of the with block.
VuPublish ==
  /\ vu.pc = "publish"
  /\ vu_peak' = _vu_peak_smooth
  /\ vu_rms' = _vu_rms_smooth
  /\ _vu_pub_lock' = "free"
  /\ vu' = [vu EXCEPT !.pc = "reset_peak"]
  /\ UNCHANGED <<cfgVars, sideVars, connVars, built, dummy, sessVars, period, lockVars, simpleCtl, matrixCtl, matrixVu, vuAcc,
                 _vu_stats_lock, _vu_peak_smooth, _vu_rms_smooth, _vu_started, _vu_stop, ticks, recVars,
                 outports, rt, ctl, hist>>

\* self._vu_peak_temp.fill(0.0), and back to the top of the loop.
VuResetPeak ==
  /\ vu.pc = "reset_peak"
  /\ _vu_peak_temp' = ZeroChan
  /\ vu' = [VuIdle EXCEPT !.pc = "sleep"]
  /\ UNCHANGED <<cfgVars, sideVars, connVars, built, dummy, sessVars, period, lockVars, simpleCtl, matrixCtl, matrixVu,
                 _vu_sumsq_temp, _vu_count_temp, vuLocks, vuPub, _vu_started, _vu_stop, ticks, recVars,
                 outports, rt, ctl, hist>>

\* A plausible slip: no try/except in the loop, the exception ending the thread.
VuTickRaiseFatal ==
  /\ vu.pc \in {"snapshot", "fill", "rms", "publish"}
  /\ vu' = [VuIdle EXCEPT !.pc = "done"]
  /\ _vu_stats_lock' = IF _vu_stats_lock = "vu" THEN "free" ELSE _vu_stats_lock
  /\ _vu_pub_lock' = IF _vu_pub_lock = "vu" THEN "free" ELSE _vu_pub_lock
  /\ hist' = [hist EXCEPT !.tick_raised = TRUE]
  /\ UNCHANGED <<cfgVars, sideVars, connVars, built, dummy, sessVars, period, _lock, waiting, simpleCtl, matrixCtl, matrixVu,
                 vuAcc, vuPub, _vu_started, _vu_stop, ticks, recVars, outports, rt, ctl>>

\* A statement of the tick raises: a with block it is in releases its lock,
\* `except Exception` logs, and `continue` goes back to the loop test.
VuTickRaise ==
  /\ vu.pc \in {"snapshot", "fill", "rms", "publish"}
  /\ vu' = [VuIdle EXCEPT !.pc = "sleep"]
  /\ _vu_stats_lock' = IF _vu_stats_lock = "vu" THEN "free" ELSE _vu_stats_lock
  /\ _vu_pub_lock' = IF _vu_pub_lock = "vu" THEN "free" ELSE _vu_pub_lock
  /\ hist' = [hist EXCEPT !.tick_raised = TRUE]
  /\ UNCHANGED <<cfgVars, sideVars, connVars, built, dummy, sessVars, period, _lock, waiting, simpleCtl, matrixCtl, matrixVu,
                 vuAcc, vuPub, _vu_started, _vu_stop, ticks, recVars, outports, rt, ctl>>

\* The tick of a worker that passed the loop test before the stop event was
\* set: it runs whatever the number of ticks before it.
VuLastTick == _vu_stop /\ vu.pc = "slept" /\ VuCopyPeak(ticks + 1)

\* One tick of the metering worker, one step of it.
VuWorker ==
  \/ VuStatsLock \/ VuSnapshot \/ VuFill \/ VuStatsRelease \/ VuSmooth
  \/ VuPubLock \/ VuPublish \/ VuResetPeak

\* The loop test finds the stop event set: the worker exits.
VuExit ==
  /\ vu.pc = "sleep"
  /\ _vu_stop
  /\ vu' = [vu EXCEPT !.pc = "done"]
  /\ UNCHANGED <<cfgVars, sideVars, connVars, built, dummy, sessVars, period, lockVars, simpleCtl, matrixCtl, matrixVu, vuAcc,
                 vuLocks, vuPub, _vu_started, _vu_stop, ticks, recVars, outports, rt, ctl,
                 hist>>

\* ------------------------------------------------ MatrixAudioEngine: API

\* Route gains the control surface passes: zero (remove) and unity.
RouteGainArgs == {0, 1000}

\* A plausible slip: zero as the threshold, a gain at the epsilon stored.
set_route_zero_threshold(input_idx, output_idx, gain) ==
  /\ ctl.pc = "idle"
  /\ _lock = "free"
  /\ routing_matrix' =
       IF 0 <= input_idx /\ input_idx < NumInputs /\ 0 <= output_idx /\ output_idx < NumOutputs
       THEN IF gain > 0
            THEN TablePut(routing_matrix, <<input_idx, output_idx>>, gain)
            ELSE TablePop(routing_matrix, <<input_idx, output_idx>>)
       ELSE routing_matrix
  /\ hist' = [hist EXCEPT !.load_open = FALSE, !.load_before = EmptyTable,
                          !.load_goal = EmptyTable]
  /\ UNCHANGED <<cfgVars, sideVars, connVars, built, dummy, sessVars, period, lockVars, simpleCtl, input_gains, input_mutes,
                 output_gains, output_mutes, matrixVu, vuAcc, vuLocks, vuPub, vuThread, recVars,
                 outports, rt, ctl>>

\* set_route(input_idx, output_idx, gain): valid indices only; a gain above
\* the 0.001 threshold sets the entry, any other gain removes it.
set_route(input_idx, output_idx, gain) ==
  /\ ctl.pc = "idle"
  /\ _lock = "free"
  /\ routing_matrix' =
       IF 0 <= input_idx /\ input_idx < NumInputs /\ 0 <= output_idx /\ output_idx < NumOutputs
       THEN IF gain > 1
            THEN TablePut(routing_matrix, <<input_idx, output_idx>>, gain)
            ELSE TablePop(routing_matrix, <<input_idx, output_idx>>)
       ELSE routing_matrix
  /\ hist' = [hist EXCEPT !.load_open = FALSE, !.load_before = EmptyTable,
                          !.load_goal = EmptyTable]
  /\ UNCHANGED <<cfgVars, sideVars, connVars, built, dummy, sessVars, period, lockVars, simpleCtl, input_gains, input_mutes,
                 output_gains, output_mutes, matrixVu, vuAcc, vuLocks, vuPub, vuThread, recVars,
                 outports, rt, ctl>>

\* clear_route(input_idx, output_idx): the entry popped, whatever the indices.
clear_route(input_idx, output_idx) ==
  /\ ctl.pc = "idle"
  /\ _lock = "free"
  /\ routing_matrix' = TablePop(routing_matrix, <<input_idx, output_idx>>)
  /\ hist' = [hist EXCEPT !.load_open = FALSE, !.load_before = EmptyTable,
                          !.load_goal = EmptyTable]
  /\ UNCHANGED <<cfgVars, sideVars, connVars, built, dummy, sessVars, period, lockVars, simpleCtl, input_gains, input_mutes,
                 output_gains, output_mutes, matrixVu, vuAcc, vuLocks, vuPub, vuThread, recVars,
                 outports, rt, ctl>>

\* clear_all_routes()
clear_all_routes ==
  /\ ctl.pc = "idle"
  /\ _lock = "free"
  /\ routing_matrix' = EmptyTable
  /\ hist' = [hist EXCEPT !.load_open = FALSE, !.load_before = EmptyTable,
                          !.load_goal = EmptyTable]
  /\ UNCHANGED <<cfgVars, sideVars, connVars, built, dummy, sessVars, period, lockVars, simpleCtl, input_gains, input_mutes,
                 output_gains, output_mutes, matrixVu, vuAcc, vuLocks, vuPub, vuThread, recVars,
                 outports, rt, ctl>>

\* Whether a table is one a snapshot may show: any table when the last change
\* was not a bulk load, else the table before the load or the one its preset
\* describes.
CompleteTable(t) == ~hist.load_open \/ t = hist.load_before \/ t = hist.load_goal

\* get_routes(): a copy of the table under the control lock.
get_routes ==
  /\ ctl.pc = "idle"
  /\ _lock = "free"
  /\ hist' = [hist EXCEPT !.snap_ctl = CompleteTable(routing_matrix)]
  /\ UNCHANGED <<cfgVars, sideVars, connVars, built, dummy, sessVars, period, lockVars, simpleCtl, matrixCtl, matrixVu, vuAcc,
                 vuLocks, vuPub, vuThread, recVars, outports, rt, ctl>>

\* A route of a preset is a dict (a record of the keys it has) or, as JSON
\* allows, not a dict at all.
IsDict(route) == "null" \notin DOMAIN route

\* route.get(key), None standing for an absent key
HasKey(route, key) == key \in DOMAIN route

\* The presets load_routing_preset is called with: two full routes; a route without gain and one without input; a list
\* holding an element that is no dict.
Presets ==
  { [routes |-> << [input |-> 0, output |-> 0, gain |-> 1000],
                   [input |-> 1, output |-> 1, gain |-> 1000] >>],
    [routes |-> << [input |-> 0, output |-> 1], [output |-> 0, gain |-> 1000] >>],
    [routes |-> << [input |-> 1, output |-> 0, gain |-> 2000], [null |-> TRUE],
                   [input |-> 0, output |-> 1, gain |-> 1000] >>] }

\* The table a list of routes describes: each dict with input and output set
\* gives one entry, gain defaulting to 1.0, later entries replacing earlier.
RECURSIVE RoutesTable(_, _)
RoutesTable(routes, n) ==
  IF n = 0 THEN EmptyTable
  ELSE LET t == RoutesTable(routes, n - 1)
           r == routes[n]
       IN IF IsDict(r) /\ HasKey(r, "input") /\ HasKey(r, "output")
          THEN TablePut(t, <<r.input, r.output>>, IF HasKey(r, "gain") THEN r.gain ELSE Unity)
          ELSE t

\* The table a preset describes.
PresetTable(preset) ==
  IF "routes" \in DOMAIN preset THEN RoutesTable(preset.routes, Len(preset.routes))
  ELSE EmptyTable

\* The record of a bulk load once the lock is released over table t: closed
\* when t is the table before the load or the one the preset describes.
LoadEnded(t) ==
  IF t = hist.load_before \/ t = hist.load_goal
  THEN [hist EXCEPT !.load_open = FALSE, !.load_before = EmptyTable, !.load_goal = EmptyTable]
  ELSE hist

\* A preset whose route names an input below -num_inputs.
FaultyPresets == { [routes |-> << [input |-> 0 - 3, output |-> 0, gain |-> 1000] >>] }

\* load_routing_preset(preset) is called.
LoadPresetFrom(S) ==
  /\ engine = "matrix"
  /\ \E preset \in S : CtlCall("load_routing_preset", preset, 0, 0)

LoadPresetCall == LoadPresetFrom(Presets)

\* load_routing_preset under the control lock: self.routing_matrix.clear()
LoadPresetClear ==
  /\ ctl.pc = "body" /\ ctl.op = "load_routing_preset"
  /\ routing_matrix' = EmptyTable
  /\ ctl' = [ctl EXCEPT !.pc = "lp_route", !.k = 1]
  /\ hist' = [hist EXCEPT !.load_open = TRUE, !.load_before = routing_matrix,
                          !.load_goal = PresetTable(ctl.a)]
  /\ UNCHANGED <<cfgVars, sideVars, connVars, built, dummy, sessVars, period, lockVars, simpleCtl, input_gains, input_mutes,
                 output_gains, output_mutes, matrixVu, vuAcc, vuLocks, vuPub, vuThread, recVars,
                 outports, rt>>

\* One turn of `for route in preset['routes']`: the entry is stored when input
\* and output are not None; route.get raises on an element that is no dict,
\* and the exception leaves the with block, which releases the lock; after
\* the last route, or without a 'routes' key, the with block ends.
LoadPresetRoute ==
  /\ ctl.pc = "lp_route"
  /\ IF "routes" \in DOMAIN ctl.a /\ ctl.k <= Len(ctl.a.routes)
     THEN LET route == ctl.a.routes[ctl.k]
          IN IF IsDict(route)
             THEN /\ routing_matrix' =
                       IF HasKey(route, "input") /\ HasKey(route, "output")
                       THEN TablePut(routing_matrix, <<route.input, route.output>>,
                                     IF HasKey(route, "gain") THEN route.gain ELSE Unity)
                       ELSE routing_matrix
                  /\ ctl' = [ctl EXCEPT !.k = ctl.k + 1]
                  /\ UNCHANGED _lock
             ELSE /\ _lock' = "free"
                  /\ ctl' = CtlIdle
                  /\ UNCHANGED routing_matrix
     ELSE /\ _lock' = "free"
          /\ ctl' = CtlIdle
          /\ UNCHANGED routing_matrix
  /\ hist' = IF _lock' = "free" THEN LoadEnded(routing_matrix) ELSE hist
  /\ UNCHANGED <<cfgVars, sideVars, connVars, built, dummy, sessVars, period, waiting, simpleCtl, input_gains, input_mutes,
                 output_gains, output_mutes, matrixVu, vuAcc, vuLocks, vuPub, vuThread, recVars,
                 outports, rt>>

\* The setters and readers the control surface calls on the matrix engine.
\* set_input_gain(channel, gain_linear)
set_input_gain(channel, gain_linear) ==
  /\ ctl.pc = "idle"
  /\ _lock = "free"
  /\ input_gains' = IF 0 <= channel /\ channel < NumInputs
                    THEN [input_gains EXCEPT ![channel] = Max(0, gain_linear)]
                    ELSE input_gains
  /\ UNCHANGED <<cfgVars, sideVars, connVars, built, dummy, sessVars, period, lockVars, simpleCtl, routing_matrix, input_mutes,
                 output_gains, output_mutes, matrixVu, vuAcc, vuLocks, vuPub, vuThread, recVars,
                 outports, rt, ctl, hist>>

\* set_output_gain(channel, gain_linear)
set_output_gain(channel, gain_linear) ==
  /\ ctl.pc = "idle"
  /\ _lock = "free"
  /\ output_gains' = IF 0 <= channel /\ channel < NumOutputs
                     THEN [output_gains EXCEPT ![channel] = Max(0, gain_linear)]
                     ELSE output_gains
  /\ UNCHANGED <<cfgVars, sideVars, connVars, built, dummy, sessVars, period, lockVars, simpleCtl, routing_matrix, input_gains,
                 input_mutes, output_mutes, matrixVu, vuAcc, vuLocks, vuPub, vuThread, recVars,
                 outports, rt, ctl, hist>>

\* The matrix engine's gain setters called directly, with any index.
MatrixGainCalls ==
  /\ engine = "matrix"
  /\ \E k \in ChannelArgs, g \in GainArgs : set_input_gain(k, g) \/ set_output_gain(k, g)

\* Route gains the engine's set_route is called with directly: a negative
\* one, one at the 0.001 threshold and one above it.
RouteArgs == {0 - 500, 1, 300}

\* The matrix engine's route calls, with any index.
RouteCalls ==
  /\ engine = "matrix"
  /\ \/ \E i \in ChannelArgs, o \in ChannelArgs, g \in RouteArgs : set_route(i, o, g)
     \/ \E i \in ChannelArgs, o \in ChannelArgs : clear_route(i, o)
     \/ clear_all_routes
     \/ get_routes

MatrixCalls ==
  /\ engine = "matrix"
  /\ \/ \E i \in IndexArgs, o \in IndexArgs, g \in RouteGainArgs : set_route(i, o, g)
     \/ get_routes

LoadPreset == LoadPresetClear \/ LoadPresetRoute

\* -------------------------------------------- MatrixAudioEngine._process

\* routing = self.routing_matrix.copy()
MxSnapRouting ==
  /\ rt.pc = "m_snap_routing"
  /\ rt' = [rt EXCEPT !.routing = routing_matrix, !.pc = "m_snap_in"]
  /\ UNCHANGED <<cfgVars, sideVars, connVars, built, dummy, sessVars, period, lockVars, simpleCtl, matrixCtl, matrixVu, vuAcc,
                 vuLocks, vuPub, vuThread, recVars, outports, ctl, hist>>

\* in_gains = self.input_gains.copy(); in_mutes = self.input_mutes.copy()
MxSnapIn ==
  /\ rt.pc = "m_snap_in"
  /\ rt' = [rt EXCEPT !.in_gains = input_gains, !.in_mutes = input_mutes, !.pc = "m_snap_out"]
  /\ UNCHANGED <<cfgVars, sideVars, connVars, built, dummy, sessVars, period, lockVars, simpleCtl, matrixCtl, matrixVu, vuAcc,
                 vuLocks, vuPub, vuThread, recVars, outports, ctl, hist>>

\* out_gains = self.output_gains.copy(); out_mutes = self.output_mutes.copy(),
\* and the end of the with block.
MxSnapOut ==
  /\ rt.pc = "m_snap_out"
  /\ rt' = [rt EXCEPT !.out_gains = output_gains, !.out_mutes = output_mutes,
                      !.pc = "m_inputs"]
  /\ _lock' = "free"
  /\ UNCHANGED <<cfgVars, sideVars, connVars, built, dummy, sessVars, period, waiting, simpleCtl, matrixCtl, matrixVu, vuAcc,
                 vuLocks, vuPub, vuThread, recVars, outports, ctl, hist>>

\* The table the routing loop iterates: the period's snapshot.
MxRouting == rt.routing

\* self._input_buffers[i] = buf * g, with g = 0.0 if in_mutes[i] else in_gains[i]
MxInputBuffer(i) == ScaleBlock(Inport(i), IF rt.in_mutes[i] THEN 0 ELSE rt.in_gains[i])

\* The input loop: the post-gain buffers, kept for the routing.
MxInputs ==
  /\ rt.pc = "m_inputs"
  /\ rt' = [rt EXCEPT !.input_buffers = [i \in Chan |-> MxInputBuffer(i)], !.pc = "m_outputs"]
  /\ UNCHANGED <<cfgVars, sideVars, connVars, built, dummy, sessVars, period, lockVars, simpleCtl, matrixCtl, matrixVu, vuAcc,
                 vuLocks, vuPub, vuThread, recVars, outports, ctl, hist>>

\* Python's index of a list of length n: a negative index counts from the end.
PyIndex(k, n) == IF k < 0 THEN k + n ELSE k

\* The routes of a table the routing loop adds to output o: those passing
\* `input_idx < self.num_inputs and output_idx < self.num_outputs`.
RoutesTo(table, o) ==
  {key \in DOMAIN table :
     key[1] < NumInputs /\ key[2] < NumOutputs /\ PyIndex(key[2], NumOutputs) = o}

\* output_buffers[o] after the routing loop: the sum over the routes to o of
\* self._input_buffers[input_idx] * route_gain.
RECURSIVE MixRoutes(_, _, _)
MixRoutes(table, keys, bufs) ==
  IF keys = {} THEN Silence
  ELSE LET key == CHOOSE x \in keys : TRUE
       IN AddBlock(ScaleBlock(bufs[PyIndex(key[1], NumInputs)], table[key]),
                   MixRoutes(table, keys \ {key}, bufs))

\* final_output = np.tanh(output_buffers[o] * g), g = 0.0 if out_mutes[o] else out_gains[o]
FinalOutput(table, bufs, out_gains, out_mutes, o) ==
  SoftClipBlock(ScaleBlock(MixRoutes(table, RoutesTo(table, o), bufs),
                           IF out_mutes[o] THEN 0 ELSE out_gains[o]))

\* A route of the table passes the routing loop's test and indexes
\* output_buffers or self._input_buffers outside the list: IndexError.
RouteRaises(table) ==
  \E key \in DOMAIN table :
    /\ key[1] < NumInputs /\ key[2] < NumOutputs
    /\ PyIndex(key[1], NumInputs) \notin Chan \/ PyIndex(key[2], NumOutputs) \notin Outs

\* The routing loop and the output loop: every output port written.  Nothing
\* in _process catches the routing loop's IndexError: it leaves the callback
\* before any output port is written, and what the transport does with a
\* callback that raised (go on, or drop the client) is the binding's choice.
MxOutputs ==
  /\ rt.pc = "m_outputs"
  /\ IF RouteRaises(MxRouting)
     THEN /\ rt' = RtIdle
          /\ hist' = [hist EXCEPT !.escaped = TRUE]
          /\ active' \in {active, FALSE}
          /\ UNCHANGED outports
     ELSE /\ outports' = [o \in Outs |->
                    FinalOutput(MxRouting, rt.input_buffers, rt.out_gains, rt.out_mutes, o)]
          /\ rt' = [rt EXCEPT !.pc = "rec_check"]
          /\ UNCHANGED <<active, hist>>
  /\ UNCHANGED <<cfgVars, sideVars, connVars, built, dummy, main, closed, stopper, period, lockVars, simpleCtl, matrixCtl,
                 matrixVu, vuAcc, vuLocks, vuPub, vuThread, recVars, ctl>>

\* `with self._lock:` at the end of _process: a blocking acquire.
MxVuLock ==
  /\ rt.pc = "m_vu_lock"
  /\ \/ /\ _lock = "free"
        /\ _lock' = "rt"
        /\ waiting' = [waiting EXCEPT !["rt"] = ""]
        /\ rt' = [rt EXCEPT !.pc = "m_vu_publish"]
     \/ /\ _lock # "free"
        /\ waiting["rt"] = ""
        /\ waiting' = [waiting EXCEPT !["rt"] = "_lock"]
        /\ UNCHANGED <<_lock, rt>>
  /\ UNCHANGED <<cfgVars, sideVars, connVars, built, dummy, sessVars, period, simpleCtl, matrixCtl, matrixVu, vuAcc, vuLocks,
                 vuPub, vuThread, recVars, outports, ctl, hist>>

\* The period's meter values copied to the published arrays, the lock
\* released, the callback returns.
MxVuPublish ==
  /\ rt.pc = "m_vu_publish"
  /\ vu_peak_in' = [i \in Chan |-> Peak(rt.input_buffers[i])]
  /\ vu_rms_in' = [i \in Chan |-> ISqrt(Dot(rt.input_buffers[i]) \div Frames)]
  /\ vu_peak_out' = [o \in Outs |-> Peak(outports[o])]
  /\ vu_rms_out' = [o \in Outs |-> ISqrt(Dot(outports[o]) \div Frames)]
  /\ _lock' = "free"
  /\ rt' = RtReturn
  /\ UNCHANGED <<cfgVars, sideVars, connVars, built, dummy, sessVars, period, waiting, simpleCtl, matrixCtl, vuAcc, vuLocks,
                 vuPub, vuThread, recVars, outports, ctl, hist>>

\* The matrix engine's callback, one step of it.
MatrixProcess ==
  \/ MxSnapRouting \/ MxSnapIn \/ MxSnapOut \/ MxInputs \/ MxOutputs \/ MxVuLock
  \/ MxVuPublish

\* ------------------------------------------------------------------ stop()

\* A plausible slip: the metering worker stopped before the writers.
StopCallVuFirst ==
  /\ main = "started"
  /\ stopper.pc = "idle"
  /\ main' = "stopping"
  /\ stopper' = [stopper EXCEPT !.pc = "vu_signal"]
  /\ UNCHANGED <<cfgVars, sideVars, connVars, built, dummy, active, closed, period, lockVars, simpleCtl, matrixCtl, matrixVu,
                 vuAcc, vuLocks, vuPub, vuThread, recVars, outports, rt, ctl, hist>>

\* stop() is called, by the thread that called start(), after start() returned.
StopCall ==
  /\ main = "started"
  /\ stopper.pc = "idle"
  /\ main' = "stopping"
  /\ stopper' = [stopper EXCEPT !.pc = "rec_signal"]
  /\ UNCHANGED <<cfgVars, sideVars, connVars, built, dummy, active, closed, period, lockVars, simpleCtl, matrixCtl, matrixVu,
                 vuAcc, vuLocks, vuPub, vuThread, recVars, outports, rt, ctl, hist>>

\* The step of stop() after the writers' part: the metering worker's part in
\* AudioEngine, the finally block in MatrixAudioEngine.
AfterWriters == IF engine = "simple" THEN "vu_signal" ELSE "deactivate"

\* if self._rec_started: self._rec_stop.set().  The event finds each writer
\* either before its loop test or inside get().
StopRecSignal ==
  /\ stopper.pc = "rec_signal"
  /\ IF _rec_started
     THEN /\ _rec_stop' = TRUE
          /\ \E caught \in SUBSET {i \in Chan : rec[i].pc = "loop"} :
               rec' = [i \in Chan |-> IF i \in caught THEN [rec[i] EXCEPT !.pc = "get"]
                                      ELSE rec[i]]
          /\ stopper' = [stopper EXCEPT !.pc = "rec_join", !.t = 0]
          /\ hist' = [hist EXCEPT !.at_signal = _rec_queues]
     ELSE /\ stopper' = [stopper EXCEPT !.pc = AfterWriters]
          /\ UNCHANGED <<_rec_stop, rec, hist>>
  /\ UNCHANGED <<cfgVars, sideVars, connVars, built, dummy, main, active, closed, period, lockVars, simpleCtl, matrixCtl,
                 matrixVu, vuAcc, vuLocks, vuPub, vuThread, _rec_queues, _rec_drop_counts,
                 _rec_started, files, outports, rt, ctl>>

\* The frame of stop() after its join of writer stopper.t returned.
NextJoin ==
  IF stopper.t + 1 < NumInputs THEN [stopper EXCEPT !.t = stopper.t + 1]
  ELSE [stopper EXCEPT !.pc = IF engine = "simple" THEN "rec_flag" ELSE "deactivate"]

\* t.join(timeout=3) returns because the writer has exited.
StopRecJoined ==
  /\ stopper.pc = "rec_join"
  /\ rec[stopper.t].pc = "done"
  /\ stopper' = NextJoin
  /\ hist' = [hist EXCEPT !.rec_joined = @ \cup {stopper.t}]
  /\ UNCHANGED <<cfgVars, sideVars, connVars, built, dummy, main, active, closed, period, lockVars, simpleCtl, matrixCtl,
                 matrixVu, vuAcc, vuLocks, vuPub, vuThread, recVars, outports, rt, ctl>>

\* t.join(timeout=3) returns because three seconds passed with the writer
\* still running.
StopRecJoinTimeout ==
  /\ stopper.pc = "rec_join"
  /\ rec[stopper.t].pc # "done"
  /\ stopper' = NextJoin
  /\ hist' = [hist EXCEPT !.rec_joined = @ \cup {stopper.t}, !.timed_out = TRUE]
  /\ UNCHANGED <<cfgVars, sideVars, connVars, built, dummy, main, active, closed, period, lockVars, simpleCtl, matrixCtl,
                 matrixVu, vuAcc, vuLocks, vuPub, vuThread, recVars, outports, rt, ctl>>

\* self._rec_started = False (AudioEngine only)
StopRecFlag ==
  /\ stopper.pc = "rec_flag"
  /\ _rec_started' = FALSE
  /\ stopper' = [stopper EXCEPT !.pc = "vu_signal"]
  /\ UNCHANGED <<cfgVars, sideVars, connVars, built, dummy, main, active, closed, period, lockVars, simpleCtl, matrixCtl,
                 matrixVu, vuAcc, vuLocks, vuPub, vuThread, _rec_queues, _rec_drop_counts,
                 _rec_stop, files, rec, outports, rt, ctl, hist>>

\* if self._vu_started: self._vu_stop.set().  The event finds the worker
\* before its loop test, inside its sleep, or in the middle of a tick.
StopVuSignal ==
  /\ stopper.pc = "vu_signal"
  /\ IF _vu_started
     THEN /\ _vu_stop' = TRUE
          /\ \E caught \in BOOLEAN :
               vu' = IF caught /\ vu.pc = "sleep" THEN [vu EXCEPT !.pc = "slept"] ELSE vu
          /\ stopper' = [stopper EXCEPT !.pc = "vu_join"]
     ELSE /\ stopper' = [stopper EXCEPT !.pc = "deactivate"]
          /\ UNCHANGED <<_vu_stop, vu>>
  /\ UNCHANGED <<cfgVars, sideVars, connVars, built, dummy, main, active, closed, period, lockVars, simpleCtl, matrixCtl,
                 matrixVu, vuAcc, vuLocks, vuPub, _vu_started, ticks, recVars, outports, rt,
                 ctl, hist>>

\* self._vu_thread.join(timeout=1) returns: the worker has exited, or one
\* second passed with it still running.
StopVuJoin ==
  /\ stopper.pc = "vu_join"
  /\ stopper' = [stopper EXCEPT !.pc = "vu_flag"]
  /\ hist' = [hist EXCEPT !.vu_joined = TRUE]
  /\ UNCHANGED <<cfgVars, sideVars, connVars, built, dummy, main, active, closed, period, lockVars, simpleCtl, matrixCtl,
                 matrixVu, vuAcc, vuLocks, vuPub, vuThread, recVars, outports, rt, ctl>>

\* self._vu_started = False
StopVuFlag ==
  /\ stopper.pc = "vu_flag"
  /\ _vu_started' = FALSE
  /\ stopper' = [stopper EXCEPT !.pc = "deactivate"]
  /\ UNCHANGED <<cfgVars, sideVars, connVars, built, dummy, main, active, closed, period, lockVars, simpleCtl, matrixCtl,
                 matrixVu, vuAcc, vuLocks, vuPub, _vu_stop, ticks, vu, recVars, outports, rt,
                 ctl, hist>>

\* A plausible slip: no finally block, the exception leaving stop() at once.
StopRaiseNoFinally ==
  /\ stopper.pc \in {"rec_join", "vu_join"}
  /\ stopper' = [stopper EXCEPT !.pc = "returned", !.raised = TRUE]
  /\ main' = "stopped"
  /\ UNCHANGED <<cfgVars, sideVars, connVars, built, dummy, active, closed, period, lockVars, simpleCtl, matrixCtl,
                 matrixVu, vuAcc, vuLocks, vuPub, vuThread, recVars, outports, rt, ctl, hist>>

\* An exception raised inside the try block, during one of the joins: control
\* passes to the finally block.
StopRaise ==
  /\ stopper.pc \in {"rec_join", "vu_join"}
  /\ stopper' = [stopper EXCEPT !.pc = "deactivate", !.raised = TRUE]
  /\ UNCHANGED <<cfgVars, sideVars, connVars, built, dummy, main, active, closed, period, lockVars, simpleCtl, matrixCtl,
                 matrixVu, vuAcc, vuLocks, vuPub, vuThread, recVars, outports, rt, ctl, hist>>

\* finally: self.client.deactivate().  The call returns once the transport
\* has finished the period it was in; no callback begins after it.
StopDeactivate ==
  /\ stopper.pc = "deactivate"
  /\ rt.pc = "idle"
  /\ active' = FALSE
  /\ stopper' = [stopper EXCEPT !.pc = "close"]
  /\ UNCHANGED <<cfgVars, sideVars, connVars, built, dummy, main, closed, period, lockVars, simpleCtl, matrixCtl, matrixVu,
                 vuAcc, vuLocks, vuPub, vuThread, recVars, outports, rt, ctl, hist>>

\* self.client.close(); stop() returns, or re-raises what the try block raised.
StopClose ==
  /\ stopper.pc = "close"
  /\ closed' = TRUE
  /\ main' = "stopped"
  /\ stopper' = [stopper EXCEPT !.pc = "returned"]
  /\ UNCHANGED <<cfgVars, sideVars, connVars, built, dummy, active, period, lockVars, simpleCtl, matrixCtl, matrixVu, vuAcc,
                 vuLocks, vuPub, vuThread, recVars, outports, rt, ctl, hist>>

\* The steps of stop() that are the stopping thread's own.
StopSteps ==
  \/ StopRecSignal \/ StopRecJoined \/ StopRecJoinTimeout \/ StopRecFlag
  \/ StopVuSignal \/ StopVuJoin \/ StopVuFlag
  \/ StopDeactivate \/ StopClose

\* start() is called again after stop() returned, the threads of the ended
\* session having exited.  client.activate() on the client that stop() closed
\* either raises, and start() with it, or activates it.
StartAgain ==
  /\ main = "stopped"
  /\ ~hist.restarted
  /\ \A i \in Chan : rec[i].pc \in {"off", "done"}
  /\ vu.pc \in {"off", "done"}
  /\ \/ main' = "failed" /\ UNCHANGED active
     \/ main' = "activated" /\ active' = TRUE
  /\ stopper' = StopIdle
  /\ hist' = [hist EXCEPT !.restarted = TRUE, !.restart_period = period, !.old_files = files]
  /\ UNCHANGED <<cfgVars, sideVars, connVars, built, dummy, closed, period, lockVars, simpleCtl, matrixCtl, matrixVu, vuAcc,
                 vuLocks, vuPub, vuThread, recVars, outports, rt, ctl>>

\* start() is called again as soon as stop() has returned, whatever the
\* threads of the ended session are doing.
StartAgainEarly ==
  /\ main = "stopped"
  /\ ~hist.restarted
  /\ \/ main' = "failed" /\ UNCHANGED active
     \/ main' = "activated" /\ active' = TRUE
  /\ stopper' = StopIdle
  /\ hist' = [hist EXCEPT !.restarted = TRUE, !.restart_period = period, !.old_files = files]
  /\ UNCHANGED <<cfgVars, sideVars, connVars, built, dummy, closed, period, lockVars, simpleCtl, matrixCtl, matrixVu, vuAcc,
                 vuLocks, vuPub, vuThread, recVars, outports, rt, ctl>>

\* start() is called on an engine that is started: client.activate() again,
\* then the same tests of the started flags.
StartWhileStarted ==
  /\ main = "started"
  /\ stopper.pc = "idle"
  /\ main' = "activated"
  /\ UNCHANGED <<cfgVars, sideVars, connVars, built, dummy, active, closed, stopper, period, lockVars, simpleCtl, matrixCtl,
                 matrixVu, vuAcc, vuLocks, vuPub, vuThread, recVars, outports, rt, ctl, hist>>

\* ---------------------------------------------------------- specifications

\* Either engine: setters, bulk load and readers with the callback, recording
\* off, the other threads not scheduled.
InitControl == InitWith({"simple", "matrix"}, {FALSE}, OneWave)

NextControl ==
  \/ StartActivate \/ StartRecording \/ StartVu
  \/ CbBegin(MaxPeriods)
  \/ CbLock
  \/ SimpleProcess
  \/ MatrixProcess
  \/ CbRecCheck
  \/ SimpleSetters
  \/ MatrixCalls
  \/ LoadPresetCall \/ CtlLock \/ LoadPreset

SpecControl == InitControl /\ [][NextControl]_vars

\* The simple engine's metering: the callback and the metering worker,
\* recording off.
InitVu == InitWith({"simple"}, {FALSE}, OneWave)

NextVu ==
  \/ StartActivate \/ StartRecording \/ StartVu
  \/ CbBegin(MaxPeriods)
  \/ CbLock
  \/ SimpleProcess
  \/ CbRecCheck
  \/ VuCopyPeak(MaxTicks)
  \/ VuWorker

SpecVu == InitVu /\ [][NextVu]_vars

\* The simple engine's meter readers: get_state with the metering worker and
\* the callback, recording off.
NextMeterRead ==
  \/ StartActivate \/ StartRecording \/ StartVu
  \/ CbBegin(MaxReads)
  \/ CbLock
  \/ SimpleProcess
  \/ CbRecCheck
  \/ VuCopyPeak(MaxReads)
  \/ VuWorker
  \/ GetStateCall \/ CtlLock \/ SimpleGetState

SpecMeterRead == InitVu /\ [][NextMeterRead]_vars

\* The callback's steps, its invocation included, with recording on.
CallbackTurn ==
  \/ CbBeginRec(MaxEarly, record_queue_size + 1)
  \/ CbLock
  \/ SimpleProcess
  \/ RecordProcess

\* The periods in which the recording queues fill up and overflow.
QueuesFilling == period >= record_queue_size - 1

\* get_state called in those periods, and its steps.
ReaderTurn == (QueuesFilling /\ GetStateCall) \/ CtlLock \/ SimpleGetState

\* The metering worker's tick taken in those periods, and its steps.
MeterTurn == (QueuesFilling /\ VuCopyPeak(MaxReads)) \/ VuWorker

\* The simple engine's recording: the callback and the channel writers,
\* recording on, for enough periods to fill a queue and overrun it.
InitRec == InitWith({"simple"}, {TRUE}, OneWave)

NextRec ==
  \/ StartActivate \/ StartRecording \/ StartVu
  \/ CbBeginRec(MaxEarly, record_queue_size + MaxOverrun)
  \/ CbLock
  \/ SimpleProcess
  \/ RecordProcess
  \/ Writers

SpecRec == InitRec /\ [][NextRec]_vars

\* The queue-full path against a control-plane reader: the callback and
\* get_state, recording on, the writers not scheduled.
NextDrop ==
  \/ StartActivate \/ StartRecording \/ StartVu
  \/ CbBeginRec(MaxEarly, record_queue_size + MaxOverrun)
  \/ CbLock
  \/ SimpleProcess
  \/ RecordProcess
  \/ GetStateCall \/ CtlLock \/ SimpleGetState

SpecDrop == InitRec /\ [][NextDrop]_vars

\* Every thread that takes a lock, together: the callback with its queue-full
\* path, get_state, and the metering worker; recording on, the writers (which
\* take no lock) not scheduled, the reader and the worker arriving as the
\* queues fill up.
NextLocks ==
  \/ StartActivate \/ StartRecording \/ StartVu
  \/ CallbackTurn
  \/ ReaderTurn
  \/ MeterTurn

SpecLocks == InitRec /\ [][NextLocks]_vars

\* The callback blocked in acquire gets the lock in the end if it is released
\* again and again; a thread that can run takes its next step, so a holder
\* releases its lock.
SpecLocksFair == SpecLocks /\ SF_vars(CallbackTurn) /\ WF_vars(ReaderTurn) /\ WF_vars(MeterTurn)

\* get_state against a second caller's setters and the callback's drop
\* counting, recording on, the writers not scheduled, the callers arriving
\* as the queues fill up.
NextReader ==
  \/ StartActivate \/ StartRecording \/ StartVu
  \/ CallbackTurn
  \/ ReaderTurn
  \/ QueuesFilling /\ OtherCallerSets

SpecReader == InitRec /\ [][NextReader]_vars

\* Recording against the setters: the callback, the setters and the channel
\* writers, recording on.
NextRaw ==
  \/ StartActivate \/ StartRecording \/ StartVu
  \/ CbBeginRec(MaxEarly, MaxPeriods)
  \/ CbLock
  \/ SimpleProcess
  \/ CbRecCheck \/ CbPut
  \/ SelectedSetters
  \/ Writers

SpecRaw == InitRec /\ [][NextRaw]_vars

\* Shutdown: start(), the callback with recording on, the channel writers
\* and stop(), the metering worker asleep until it is stopped.
InitStop == InitWith({"simple", "matrix"}, {TRUE}, OneWave)

NextStop ==
  \/ StartActivate \/ StartRecording \/ StartVu
  \/ CbBeginRec(MaxEarly, MaxPeriods)
  \/ CbLock
  \/ SimpleProcess
  \/ MatrixProcess
  \/ CbRecCheck \/ CbPut
  \/ Writers
  \/ WritersStopping
  \/ VuExit
  \/ StopCall
  \/ StopSteps
  \/ StopRaise

SpecStop == InitStop /\ [][NextStop]_vars

\* The same under scheduling: the thread inside stop() keeps running, and the
\* transport runs a callback it has begun to its end.  Nothing is assumed of
\* the writers or of the metering worker.
CallbackSteps == CbLock \/ SimpleProcess \/ MatrixProcess \/ CbRecCheck \/ CbPut

SpecStopFair == SpecStop /\ WF_vars(StopSteps) /\ WF_vars(CallbackSteps)

\* A second session: the simple engine started, stopped and started again,
\* recording on.
NextRestart ==
  \/ StartActivate \/ StartRecording \/ StartVu
  \/ CbBeginRec(MaxEarly, MaxPeriods)
  \/ CbLock
  \/ SimpleProcess
  \/ CbRecCheck \/ CbPut
  \/ Writers
  \/ WritersStopping
  \/ VuExit
  \/ StopCall
  \/ StopSteps
  \/ StartAgain

SpecRestart == InitRec /\ [][NextRestart]_vars

\* Any sequence of start() and stop(): the simple engine, recording on or
\* off, started, started again while running, stopped, and started once more.
InitWorkers == InitWith({"simple"}, BOOLEAN, OneWave)

NextWorkers ==
  \/ StartActivate \/ StartRecording \/ StartVu
  \/ StartWhileStarted
  \/ CbBeginRec(MaxEarly, MaxReads)
  \/ CbLock
  \/ SimpleProcess
  \/ CbRecCheck \/ CbPut
  \/ Writers
  \/ WritersStopping
  \/ VuExit
  \/ StopCall
  \/ StopSteps
  \/ StartAgainEarly

SpecWorkers == InitWorkers /\ [][NextWorkers]_vars

\* The workers' ends: the simple engine recording and metering, a tick of the
\* metering worker raising or not, then stop() up to the client's part, its
\* joins of the writers not timing out.
WriterSteps(i) == RecWorkerTurn(i) \/ RecGetTimeout(i) \/ RecExit(i)

\* The callback has run its periods.
PeriodsOver == period >= MaxReads /\ rt.pc = "idle"

\* The metering worker's steps, its tick before the stop event taken after
\* the callback's periods.
MeterSteps ==
  \/ PeriodsOver /\ VuCopyPeak(MaxReads)
  \/ VuLastTick \/ VuWorker \/ VuTickRaise \/ VuExit

NextEnds ==
  \/ StartActivate \/ StartRecording \/ StartVu
  \/ CbBeginRec(MaxEarly, MaxReads)
  \/ CbLock
  \/ SimpleProcess
  \/ CbRecCheck \/ CbPut
  \/ \E i \in Chan : WriterSteps(i)
  \/ MeterSteps
  \/ StopCall
  \/ StopRecSignal \/ StopRecJoined \/ StopRecFlag
  \/ StopVuSignal \/ StopVuJoin \/ StopVuFlag

SpecEnds == InitRec /\ [][NextEnds]_vars

\* Each thread keeps running: a writer's get() ends after 200 ms at the
\* latest and its write ends, the metering worker's sleep and statements
\* end, and the callback ends its period.  Nothing is assumed of stop().
SpecEndsFair ==
  /\ SpecEnds
  /\ \A i \in Chan : WF_vars(WriterSteps(i))
  /\ WF_vars(VuLastTick \/ VuWorker \/ VuExit)
  /\ WF_vars(CallbackSteps)

\* The matrix engine's callback against a preset that names an input outside
\* the engine's lists, recording off.
InitFault == InitWith({"matrix"}, {FALSE}, OneWave)

NextFault ==
  \/ StartActivate \/ StartRecording
  \/ CbBegin(MaxPeriods)
  \/ CbLock
  \/ MatrixProcess
  \/ CbRecCheck
  \/ LoadPresetFrom(FaultyPresets) \/ CtlLock \/ LoadPreset

SpecFault == InitFault /\ [][NextFault]_vars

\* The setters alone, on either engine, called in any order with any index.
NextSetters == SetterCalls \/ MatrixGainCalls

SpecSetters == InitControl /\ [][NextSetters]_vars

\* The selection: any configured value, set_selected_channel with any index,
\* and the callback.
InitSelect == InitConfig({"simple"}, {FALSE}, OneWave, RequestArgs)

NextSelect ==
  \/ StartActivate \/ StartRecording \/ StartVu
  \/ CbBegin(MaxPeriods)
  \/ CbLock
  \/ SimpleProcess
  \/ CbRecCheck
  \/ SelectCalls

SpecSelect == InitSelect /\ [][NextSelect]_vars

\* The control surface's select endpoint and the readers of the state:
\* get_state, which the metering stream's publisher calls for each payload.
NextApi ==
  \/ StartActivate \/ StartRecording \/ StartVu
  \/ CbBegin(MaxReads)
  \/ CbLock
  \/ SimpleProcess
  \/ CbRecCheck
  \/ \E ch \in RequestArgs : ApiSelect(ch)
  \/ GetStateCall \/ CtlLock \/ SimpleGetState

SpecApi == InitSelect /\ [][NextApi]_vars

\* The control surface's gain and mute endpoints on the simple engine.
NextSurface ==
  \/ \E ch \in RequestArgs, payload \in GainPayloads : ApiSetGain(ch, payload)
  \/ \E ch \in RequestArgs, payload \in MutePayloads : ApiSetMute(ch, payload)

SpecSurface == InitVu /\ [][NextSurface]_vars

\* start() with any setting of the auto-connect options, with recording on or
\* off, while the device's ports are there, absent, or come up on the way.
InitConnect ==
  /\ InitEngine({"simple"}, BOOLEAN, OneWave, {1})
  /\ auto_connect_capture \in BOOLEAN
  /\ auto_connect_playback \in BOOLEAN
  /\ physical \in 0 .. NumInputs

StartSteps == StartActivate \/ ConnectSteps \/ StartRecording \/ StartVu

NextConnect == StartSteps \/ PortsAppear

SpecConnect == InitConnect /\ [][NextConnect]_vars

\* start() is one thread running to its end: each of its steps, the sleep
\* included, is taken in the end.
SpecConnectFair == SpecConnect /\ WF_vars(StartSteps)

\* Construction with and without the transport library, of either engine,
\* followed by start().
InitConstruct ==
  /\ EngineFields({"simple", "matrix"}, BOOLEAN, OneWave, {1})
  /\ jack \in BOOLEAN
  /\ built = {}
  /\ main = "new"
  /\ auto_connect_capture \in (IF engine = "simple" THEN BOOLEAN ELSE {FALSE})
  /\ auto_connect_playback \in (IF engine = "simple" THEN BOOLEAN ELSE {FALSE})
  /\ physical \in 0 .. NumInputs
  /\ ports = PortsBuilt(NumInputs, NumOutputs)
  /\ SideIdle

\* The largest number of input ports, and of output ports, an engine is
\* configured with.
MaxPorts == 4

\* What the steps outside the engine's threads leave alone: the engine.
EngineFrame ==
  UNCHANGED <<cfgVars, connVars, built, dummy, sessVars, period, lockVars, simpleCtl, matrixCtl,
              matrixVu, vuAcc, vuLocks, vuPub, vuThread, recVars, outports, rt, ctl, hist>>

\* self.inports = [self.client.inports.register(f'in_{i + 1}') for i in range(self.num_inputs)]
RegisterIn ==
  /\ ports.pc = "inputs"
  /\ ports' = IF ports.i < ports.num_inputs
              THEN [ports EXCEPT !.inports = Append(@, InName(ports.i)), !.i = @ + 1]
              ELSE [ports EXCEPT !.pc = "outputs", !.i = 0]
  /\ EngineFrame /\ UNCHANGED <<feed, app_state>>

\* `if self.num_outputs == 2:` the two ports of the stereo mode.
RegisterOutStereo ==
  /\ ports.pc = "outputs"
  /\ ports.num_outputs = 2
  /\ ports' = [ports EXCEPT !.outports = <<"out_l", "out_r">>, !.pc = "done"]
  /\ EngineFrame /\ UNCHANGED <<feed, app_state>>

\* else: `for i in range(self.num_outputs)`, one port a turn.
RegisterOut ==
  /\ ports.pc = "outputs"
  /\ ports.num_outputs # 2
  /\ ports' = IF ports.i < ports.num_outputs
              THEN [ports EXCEPT !.outports = Append(@, OutName(ports.i)), !.i = @ + 1]
              ELSE [ports EXCEPT !.pc = "done", !.i = 0]
  /\ EngineFrame /\ UNCHANGED <<feed, app_state>>

\* The callback's `for o, outport in enumerate(self.outports)`: the buffer
\* of index o written to the port at position o of the list.
PortWrite ==
  /\ ports.pc = "done"
  /\ ports.o < Len(ports.outports)
  /\ ports' = [ports EXCEPT !.writes = @ \cup {<<ports.o, ports.outports[ports.o + 1]>>},
                            !.o = (ports.o + 1) % Len(ports.outports)]
  /\ EngineFrame /\ UNCHANGED <<feed, app_state>>

\* ------------------------------------- scripts/feed_wav_to_input.py: ports

\* What the steps of the feeder script leave alone.
FeedFrame == EngineFrame /\ UNCHANGED <<ports, app_state>>

\* Port names are sequences of characters.  str.lower(), for the letters the
\* names below use.
LowerChar(c) ==
  CASE c = "B" -> "b" [] c = "U" -> "u" [] c = "L" -> "l" [] c = "E" -> "e"
    [] c = "N" -> "n" [] c = "I" -> "i"
    [] OTHER -> c

Lower(name) == [j \in 1 .. Len(name) |-> LowerChar(name[j])]

\* `needle in hay` for strings: needle occurs somewhere in hay.
Contains(hay, needle) ==
  \E o \in 0 .. (Len(hay) - Len(needle)) : SubSeq(hay, o + 1, o + Len(needle)) = needle

\* The decimal digits an f-string gives a non-negative integer.
RECURSIVE Decimal(_)
Decimal(k) ==
  LET d == <<"0", "1", "2", "3", "4", "5", "6", "7", "8", "9">>[(k % 10) + 1]
  IN IF k < 10 THEN <<d>> ELSE Append(Decimal(k \div 10), d)

\* exact = f"bullen:in_{input_index}"
ExactName(input_index) ==
  <<"b", "u", "l", "l", "e", "n", ":", "i", "n", "_">> \o Decimal(input_index)

\* target_lc = f":in_{input_index}".lower()
TargetLc(input_index) == Lower(<<":", "i", "n", "_">> \o Decimal(input_index))

\* The input ports the transport may list to the script: inputs 1, 2 and 10
\* of the engine, an upper-case spelling of input 2, and a port of another
\* client.
PortPool ==
  {ExactName(1), ExactName(2), ExactName(10),
   <<"B", "U", "L", "L", "E", "N", ":", "I", "N", "_", "2">>,
   <<"s", "y", "s", ":", "i", "n", "_", "1">>}

\* client.get_ports(is_input=True): up to two of them, in any order.
PortLists ==
  {<<>>} \cup {<<a>> : a \in PortPool}
         \cup {p \in PortPool \X PortPool : p[1] # p[2]}

\* The input indices the script is asked for.
FeedIndices == {1, 2, 10}

\* The script about to look its port up.
FeedNew(list, k) ==
  [pc |-> "exact", names |-> list, input_index |-> k, i |-> 0, result |-> <<>>]

\* names = [p.name for p in ports]; if exact in names: return exact
FindExact ==
  /\ feed.pc = "exact"
  /\ feed' = IF \E j \in 1 .. Len(feed.names) : feed.names[j] = ExactName(feed.input_index)
             THEN [feed EXCEPT !.pc = "returned", !.result = ExactName(feed.input_index)]
             ELSE [feed EXCEPT !.pc = "scan", !.i = 1]
  /\ FeedFrame

\* for p in ports: if "bullen" in p.name.lower() and target_lc in
\* p.name.lower(): return p.name; after the loop, return None (the empty
\* result here).
FindScan ==
  /\ feed.pc = "scan"
  /\ feed' =
       IF feed.i > Len(feed.names) THEN [feed EXCEPT !.pc = "returned"]
       ELSE IF /\ Contains(Lower(feed.names[feed.i]), <<"b", "u", "l", "l", "e", "n">>)
               /\ Contains(Lower(feed.names[feed.i]), TargetLc(feed.input_index))
            THEN [feed EXCEPT !.pc = "returned", !.result = feed.names[feed.i]]
            ELSE [feed EXCEPT !.i = @ + 1]
  /\ FeedFrame

\* The script's port lookup, for every list of ports and every index.
InitFind ==
  /\ EngineBuilt({"simple"}, {FALSE}, OneWave, {1})
  /\ auto_connect_capture = FALSE
  /\ auto_connect_playback = FALSE
  /\ physical = 0
  /\ ports = PortsBuilt(NumInputs, NumOutputs)
  /\ app_state = AppIdle
  /\ feed \in {FeedNew(list, k) : list \in PortLists, k \in FeedIndices}

NextFind == FindExact \/ FindScan

SpecFind == InitFind /\ [][NextFind]_vars

\* ----------------------------------- scripts/feed_wav_to_input.py: process

\* The longest file, in samples, the largest period, in frames, and the
\* number of periods the feeder's callback runs.
MaxSamples == 4

MaxFrames == 4

MaxFeedPeriods == 4

\* The content of the port's buffer before the callback writes it.
Stale == 0 - 1

\* The file's samples: sample j has the value j, none of them zero.
FileOf(n) == [j \in 1 .. n |-> j]

\* a[lo:hi] of an array.
Slice(a, lo, hi) == SubSeq(a, lo + 1, Min(hi, Len(a)))

\* buf[lo:lo + len(vals)] = vals
Assign(buf, lo, vals) ==
  [j \in 1 .. Len(buf) |-> IF j > lo /\ j <= lo + Len(vals) THEN vals[j - lo] ELSE buf[j]]

\* buf[lo:] = 0.0
ZeroFrom(buf, lo) == [j \in 1 .. Len(buf) |-> IF j > lo THEN 0 ELSE buf[j]]

\* The script with its callback set: x, --loop, the period size, pos['i'],
\* and what the port has carried so far.
FeederNew(n, frames, loop) ==
  [pc |-> "run", x |-> FileOf(n), frames |-> frames, loop |-> loop, i |-> 0,
   out |-> <<>>, periods |-> 0]

\* A plausible slip: the position after a wrap set back to the start.
FeedWrapPosStart(wrap_n) == 0

\* pos['i'] = wrap_n, after the wrap.
FeedWrapPos(wrap_n) == wrap_n

\* The part of process(frames) after the test `i >= n`: what it leaves in
\* the buffer and in pos['i'].
FeedBody(x, loop, frames, i, end) ==
  LET n == Len(x)
      buf == [j \in 1 .. frames |-> Stale]
      tail == n - i
      head == IF tail > 0 THEN Assign(buf, 0, Slice(x, i, n)) ELSE buf
      wrap == frames - tail
      wrap_n == Min(wrap, n)
      wrapped == Assign(head, tail, Slice(x, 0, wrap_n))
  IN IF end <= n THEN [buf |-> Assign(buf, 0, Slice(x, i, end)), i |-> end]
     ELSE IF loop
          THEN IF wrap_n < wrap
               THEN [buf |-> ZeroFrom(wrapped, tail + wrap_n), i |-> wrap_n]
               ELSE [buf |-> wrapped, i |-> FeedWrapPos(wrap_n)]
          ELSE [buf |-> ZeroFrom(head, tail), i |-> n]

\* process(frames), one period: n = x.shape[0]; i = pos['i']; end = i +
\* frames; past the end, start again when looping, else silence and return.
FeedProcess ==
  /\ feed.pc = "run"
  /\ feed.periods < MaxFeedPeriods
  /\ LET n == Len(feed.x)
         r == IF feed.i >= n
              THEN IF feed.loop THEN FeedBody(feed.x, feed.loop, feed.frames, 0, feed.frames)
                   ELSE [buf |-> ZeroFrom([j \in 1 .. feed.frames |-> Stale], 0), i |-> feed.i]
              ELSE FeedBody(feed.x, feed.loop, feed.frames, feed.i, feed.i + feed.frames)
     IN feed' = [feed EXCEPT !.i = r.i, !.out = @ \o r.buf, !.periods = @ + 1]
  /\ FeedFrame

\* The feeder's callback, for every file length, period size and mode.
InitFeed ==
  /\ EngineBuilt({"simple"}, {FALSE}, OneWave, {1})
  /\ auto_connect_capture = FALSE
  /\ auto_connect_playback = FALSE
  /\ physical = 0
  /\ ports = PortsBuilt(NumInputs, NumOutputs)
  /\ app_state = AppIdle
  /\ feed \in {FeederNew(n, f, l) : n \in 1 .. MaxSamples, f \in 1 .. MaxFrames, l \in BOOLEAN}

SpecFeed == InitFeed /\ [][FeedProcess]_vars

\* ------------------------------------------- server/app.py: metering socket

\* What the steps of the server's socket tasks leave alone.
AppFrame == EngineFrame /\ UNCHANGED <<ports, feed>>

\* The WebSocket connections the model opens.
Sockets == {1, 2}

\* list(app.state.clients): the set's members in some order.
ListOf(S) == {q \in [1 .. Cardinality(S) -> S] : \A a, b \in DOMAIN q : q[a] = q[b] => a = b}

\* The server with no connection yet and the publisher in its sleep.  For
\* each connection: where its vu_socket handler is, and whether the peer is
\* still connected; for the publisher: the copy of the client set it is
\* walking, the connections it found dead, and those it has sent to in this
\* round after finding them dead.
AppNew ==
  [pc |-> "run", clients |-> {},
   handler |-> [w \in Sockets |-> "new"], open |-> [w \in Sockets |-> FALSE],
   pub |-> "sleep", todo |-> <<>>, dead |-> <<>>, sent_dead |-> {}, failed |-> {}]

\* await ws.accept(); app.state.clients.add(ws)
SocketAccept(w) ==
  /\ app_state.handler[w] = "new"
  /\ app_state' = [app_state EXCEPT !.handler[w] = "receive", !.open[w] = TRUE,
                                    !.clients = @ \cup {w}]
  /\ AppFrame

\* The peer closes the connection.
SocketDisconnect(w) ==
  /\ app_state.open[w]
  /\ app_state' = [app_state EXCEPT !.open[w] = FALSE]
  /\ AppFrame

\* await ws.receive_text() on a connection the peer has closed raises
\* WebSocketDisconnect, then RuntimeError on every later call: both are
\* Exceptions, which the inner `except Exception` catches.  (On an open
\* connection the call waits, or returns a message and is called again.)
SocketReceiveRaises(w) ==
  /\ app_state.handler[w] = "receive"
  /\ ~app_state.open[w]
  /\ app_state' = [app_state EXCEPT !.handler[w] = "sleep"]
  /\ AppFrame

\* await asyncio.sleep(1), and the next turn of `while True`.
SocketSleep(w) ==
  /\ app_state.handler[w] = "sleep"
  /\ app_state' = [app_state EXCEPT !.handler[w] = "receive"]
  /\ AppFrame

\* The handler's task is cancelled (the server shuts down): CancelledError
\* is no Exception, so it leaves the loop; finally:
\* app.state.clients.discard(ws).
SocketCancelled(w) ==
  /\ app_state.handler[w] \in {"receive", "sleep"}
  /\ app_state' = [app_state EXCEPT !.handler[w] = "ended", !.open[w] = FALSE,
                                    !.clients = @ \ {w}]
  /\ AppFrame

SocketSteps(w) == SocketAccept(w) \/ SocketReceiveRaises(w) \/ SocketSleep(w)

\* await asyncio.sleep(0.05); state = engine.get_state(); the payload;
\* `if not app.state.clients: continue`; dead = []; the loop over
\* list(app.state.clients) begins.
PubRound ==
  /\ app_state.pub = "sleep"
  /\ app_state.clients # {}
  /\ \E q \in ListOf(app_state.clients) :
       app_state' = [app_state EXCEPT !.pub = "send", !.todo = q, !.dead = <<>>,
                                      !.sent_dead = {}, !.failed = {}]
  /\ AppFrame

\* try: await ws.send_json(payload) except Exception: dead.append(ws).  The
\* send fails on a connection the peer has closed, and may fail on an open
\* one.
PubSend ==
  /\ app_state.pub = "send"
  /\ app_state.todo # <<>>
  /\ LET w == Head(app_state.todo)
     IN \E ok \in (IF app_state.open[w] THEN BOOLEAN ELSE {FALSE}) :
          app_state' = [app_state EXCEPT
                          !.todo = Tail(@),
                          !.dead = IF ok THEN @ ELSE Append(@, w),
                          !.failed = IF ok THEN @ ELSE @ \cup {w},
                          !.sent_dead = IF w \in app_state.failed THEN @ \cup {w} ELSE @]
  /\ AppFrame

\* for ws in dead: app.state.clients.discard(ws); back to the sleep.
PubRemove ==
  /\ app_state.pub = "send"
  /\ app_state.todo = <<>>
  /\ app_state' = [app_state EXCEPT !.pub = "sleep",
                                    !.clients = @ \ {app_state.dead[j] : j \in DOMAIN app_state.dead}]
  /\ AppFrame

PubSteps == PubRound \/ PubSend \/ PubRemove

\* The metering socket: connections opened and closed by their peers, their
\* handlers, the publisher, and the server cancelling a handler.
InitSocket ==
  /\ EngineBuilt({"simple"}, {FALSE}, OneWave, {1})
  /\ auto_connect_capture = FALSE
  /\ auto_connect_playback = FALSE
  /\ physical = 0
  /\ ports = PortsBuilt(NumInputs, NumOutputs)
  /\ feed = FeedIdle
  /\ app_state = AppNew

NextSocket ==
  \/ \E w \in Sockets : SocketSteps(w) \/ SocketDisconnect(w) \/ SocketCancelled(w)
  \/ PubSteps

SpecSocket == InitSocket /\ [][NextSocket]_vars

\* The event loop runs every task that can run: each handler and the
\* publisher.  Nothing makes a peer disconnect or the server cancel.
SpecSocketFair ==
  /\ SpecSocket
  /\ \A w \in Sockets : WF_vars(SocketSteps(w))
  /\ WF_vars(PubSteps)

\* The constructor at its port registration, for any numbers of ports.
InitPorts ==
  /\ EngineFields({"simple"}, {FALSE}, OneWave, {1})
  /\ jack = TRUE
  /\ built = {"client"}
  /\ main = "init_ports"
  /\ auto_connect_capture = FALSE
  /\ auto_connect_playback = FALSE
  /\ physical = 0
  /\ ports \in {PortsNew(n, m) : n \in 1 .. MaxPorts, m \in 0 .. MaxPorts}
  /\ SideIdle

NextPorts == RegisterIn \/ RegisterOutStereo \/ RegisterOut \/ PortWrite

SpecPorts == InitPorts /\ [][NextPorts]_vars

NextConstruct == Construct \/ NextConnect

SpecConstruct == InitConstruct /\ [][NextConstruct]_vars

\* The two engines built from one configuration, with any 'selected_channel'
\* and recording on or off, and called alike.
InitPair == InitConfig({"simple"}, BOOLEAN, OneWave, RequestArgs)

SpecPair == InitPair /\ [][PairCalls]_vars

\* The simple engine's callback while the selection, and one channel's gain
\* and mute, are set.
NextOutput ==
  \/ StartActivate \/ StartRecording \/ StartVu
  \/ CbBegin(MaxReads)
  \/ CbLock
  \/ SimpleProcess
  \/ CbRecCheck
  \/ SimpleSetters

SpecOutput == InitVu /\ [][NextOutput]_vars

\* A preset whose route names input -1: below the range, and within the reach
\* of a Python list's negative indices.
WrappingPresets == { [routes |-> << [input |-> 0 - 1, output |-> 0, gain |-> 1000] >>] }

\* The matrix engine's callback while presets are loaded, one of them with an
\* index below the range.
NextMix ==
  \/ StartActivate \/ StartRecording
  \/ CbBegin(MaxPeriods)
  \/ CbLock
  \/ MatrixProcess
  \/ CbRecCheck
  \/ LoadPresetFrom(Presets \cup WrappingPresets) \/ CtlLock \/ LoadPreset

SpecMix == InitFault /\ [][NextMix]_vars

\* The matrix engine's route table under its whole API: single routes set and
\* cleared, the table cleared and read, presets loaded.
NextRoutes ==
  \/ RouteCalls
  \/ LoadPresetFrom(Presets \cup FaultyPresets) \/ CtlLock \/ LoadPreset

SpecRoutes == InitFault /\ [][NextRoutes]_vars

\* ------------------------------------------------------------------ claims

\* Where the callback is while it copies the control fields.
SnapPcs == {"snap_sel", "snap_gains", "snap_mutes", "m_snap_routing", "m_snap_in", "m_snap_out"}

\* Where the callback is once the period's output ports are written.
RoutedPcs == {"rec_check", "put", "drop_lock", "drop_inc", "m_vu_lock", "m_vu_publish", "idle"}

\* The output ports a period gives when processed against control state c.
ExpectedOut(c) ==
  IF engine = "simple"
  THEN [o \in Outs |->
          ScaleBlock(Inport(c.sel), IF c.mutes[c.sel] THEN 0 ELSE c.gains[c.sel])]
  ELSE [o \in Outs |->
          FinalOutput(c.routing,
                      [i \in Chan |->
                         ScaleBlock(Inport(i), IF c.in_mutes[i] THEN 0 ELSE c.in_gains[i])],
                      c.out_gains, c.out_mutes, o)]

\* C1: a period is processed against one snapshot of the control state. While
\* the callback copies the control fields it holds the control lock and the
\* fields stay what they were when it took the lock; a bulk load in progress
\* holds the lock; after the copy the callback's locals are that state; and
\* the output ports of the period are those that state gives, whatever the
\* setters did meanwhile. Both engines.
C1_ConsistentSnapshot ==
  /\ rt.pc \in SnapPcs => _lock = "rt" /\ ControlState = hist.snap
  /\ ctl.pc \in {"body", "lp_route"} => _lock = "ctl" /\ rt.pc \notin SnapPcs
  /\ engine = "simple" /\ rt.pc \notin SnapPcs \cup {"idle", "lock"} =>
       rt.sel = hist.snap.sel /\ rt.gains = hist.snap.gains /\ rt.mutes = hist.snap.mutes
  /\ engine = "matrix" /\ rt.pc \notin SnapPcs \cup {"idle", "lock"} =>
       /\ rt.routing = hist.snap.routing
       /\ rt.in_gains = hist.snap.in_gains /\ rt.in_mutes = hist.snap.in_mutes
       /\ rt.out_gains = hist.snap.out_gains /\ rt.out_mutes = hist.snap.out_mutes
  /\ period >= 1 /\ rt.pc \in RoutedPcs => outports = ExpectedOut(hist.snap)

\* A period of the simple engine whose output is written after a setter
\* changed the selected channel's gain past the snapshot.
C1_Witness ==
  /\ engine = "simple"
  /\ rt.pc = "rec_check"
  /\ gains[rt.sel] # rt.gains[rt.sel]
  /\ Peak(outports[0]) > 0

\* C2: load_routing_preset replaces the route table atomically: the table the
\* callback copies, and the one get_routes returns, is the table before the
\* load or the one the preset describes.
C2_AtomicLoad ==
  /\ rt.pc \in {"m_snap_in", "m_snap_out"} => CompleteTable(rt.routing)
  /\ hist.snap_ctl

\* Whether the callback is done with channel i in the current period.
ChannelDone(i) ==
  \/ rt.pc \in RoutedPcs \cup {"route"}
  \/ rt.pc \in {"peak_rd", "peak_wr", "vu_try", "vu_sumsq", "vu_count"} /\ rt.i > i

\* The periods the callback is done with on channel i.
DonePeriods(i) == {p \in 1 .. period : p < period \/ ChannelDone(i)}

\* C3: the callback never waits for the metering accumulator lock: it is
\* never parked on it, it updates the accumulators only while holding it, and
\* a period it skipped on a channel is in neither accumulator and the
\* callback has moved on.
C3_NeverWaitsStats ==
  /\ waiting["rt"] # "_vu_stats_lock"
  /\ rt.pc \in {"vu_sumsq", "vu_count"} => _vu_stats_lock = "rt"
  /\ \A i \in Chan :
       /\ hist.skipped[i] \subseteq DonePeriods(i)
       /\ hist.skipped[i] \cap (hist.acc_sumsq[i] \cup hist.acc_count[i] \cup hist.ticked[i]) = {}

\* A period skipped on channel 0 while the worker held the lock, the worker
\* still holding it and the callback already past routing.
C3_Witness ==
  /\ period \in hist.skipped[0]
  /\ _vu_stats_lock = "vu"
  /\ rt.pc \in RoutedPcs

\* C5: peak metering is exact: every peak the callback recorded since the
\* worker last copied the peak accumulator is still in the accumulator, so
\* that the next copy includes it.
C5_PeakExact == \A i \in Chan : _vu_peak_temp[i] >= hist.unsampled_peak[i]

\* The sum of squares of the post-gain blocks of channel i over periods ps,
\* at unity gain.
RECURSIVE SumsqOver(_, _)
SumsqOver(i, ps) ==
  IF ps = {} THEN 0
  ELSE LET p == CHOOSE x \in ps : TRUE
       IN Dot(Block(Waves[wave[i]], p)) + SumsqOver(i, ps \ {p})

\* C6: every period whose accumulator update succeeded is pending or counted
\* by one tick, never by two; a tick's sumsq and count come from the same
\* periods and are their sum of squares and their frames; both accumulators
\* are zero after the reset; the tick's RMS is sqrt(sumsq/count), 0 when the
\* count is 0.
C6_RmsAccounting ==
  /\ ~hist.twice
  /\ \A i \in Chan :
       /\ vu.pc # "fill" => hist.ticked[i] \cap hist.acc_count[i] = {}
       /\ DonePeriods(i) \ hist.skipped[i] \subseteq hist.acc_count[i] \cup hist.ticked[i]
       /\ rt.pc # "vu_count" => hist.acc_sumsq[i] = hist.acc_count[i]
       /\ _vu_count_temp[i] = Frames * Cardinality(hist.acc_count[i])
       /\ _vu_sumsq_temp[i] = SumsqOver(i, hist.acc_sumsq[i])
       /\ vu.pc \in {"fill", "stats_release", "rms"} =>
            /\ hist.tick_sumsq[i] = hist.tick_count[i]
            /\ vu.sumsq[i] = SumsqOver(i, hist.tick_sumsq[i])
            /\ vu.counts[i] = Frames * Cardinality(hist.tick_count[i])
       /\ vu.pc = "stats_release" => _vu_sumsq_temp[i] = 0 /\ _vu_count_temp[i] = 0
       /\ vu.pc \in {"pub_lock", "publish"} =>
            vu.rms_values[i] = IF vu.counts[i] = 0 THEN 0
                               ELSE ISqrt(vu.sumsq[i] \div vu.counts[i])

\* A second tick past its reset, having counted a period on channel 0 while
\* channel 1 had none, an earlier tick having counted another period.
C6_Witness ==
  /\ ticks = 2
  /\ vu.pc = "pub_lock"
  /\ vu.counts[0] = Frames /\ vu.counts[1] = 0
  /\ vu.rms_values[0] > 0 /\ vu.rms_values[1] = 0
  /\ Cardinality(hist.ticked[0]) = 2

\* C7: metering never contends with the control lock: the worker neither
\* holds nor waits for it; the published values are written by the worker and
\* read by get_state only under the publication lock; and get_state holds
\* no control lock while it waits for or holds the publication lock.
C7_PublicationLock ==
  /\ _lock # "vu" /\ waiting["vu"] # "_lock"
  /\ vu.pc = "publish" => _vu_pub_lock = "vu"
  /\ ctl.pc = "gs_vu" => _vu_pub_lock = "ctl"
  /\ ctl.pc \in {"gs_pub_lock", "gs_vu"} => _lock # "ctl"
  /\ _vu_pub_lock = "ctl" \/ waiting["ctl"] = "_vu_pub_lock" => _lock # "ctl"

\* get_state waiting for the publication lock the worker holds, while the
\* callback holds the control lock.
C7_Witness ==
  /\ waiting["ctl"] = "_vu_pub_lock"
  /\ vu.pc = "publish"
  /\ _lock = "rt"

\* C4: on a full queue the callback counts the drop without waiting on a lock
\* a control-plane caller holds: on the queue-full path it is never parked on
\* the control lock.
C4_DropPathNeverWaits == ~(rt.pc = "drop_lock" /\ waiting["rt"] = "_lock" /\ _lock = "ctl")

\* The blocks of channel i written and still queued, in that order.
Recorded(i) == files[i] \o _rec_queues[i]

\* Whether the period tags of a sequence of blocks strictly increase.
Increasing(blocks) == \A j \in 1 .. Len(blocks) - 1 : blocks[j][1] < blocks[j + 1][1]

\* C8: for each channel the blocks written, followed by those still queued,
\* are an order-preserving subsequence of the blocks the callback processed
\* for that channel: periods strictly increase (enqueue order, nothing
\* twice), and each block is the whole block of its period on that channel.
C8_WriterSubsequence ==
  \A i \in Chan :
    /\ Increasing(Recorded(i))
    /\ \A j \in 1 .. Len(Recorded(i)) :
         /\ Recorded(i)[j][1] \in 1 .. Len(hist.processed[i])
         /\ Recorded(i)[j] = hist.processed[i][Recorded(i)[j][1]]
         /\ Len(Recorded(i)[j][2]) = Frames

\* Channel 0's file holding a block written after a dropped period, the
\* other channel's file not empty.
C8_Witness ==
  /\ \E j \in 1 .. Len(files[0]) - 1 :
       files[0][j][1] > 1 /\ files[0][j + 1][1] > files[0][j][1] + 1
  /\ files[1] # <<>>

\* C9: every block enqueued or written for a channel is the raw input of its
\* period, whatever the channel's gain and mute, while the routed output of
\* the period is the selected channel's input scaled by the snapshot's gain,
\* zero when muted.
C9_RawRecording ==
  /\ \A i \in Chan : \A j \in 1 .. Len(Recorded(i)) :
       Recorded(i)[j][2] = Block(Waves[wave[i]], Recorded(i)[j][1])
  /\ period >= 1 /\ rt.pc \in RoutedPcs =>
       \A o \in Outs :
         outports[o] = IF hist.snap.mutes[hist.snap.sel] THEN Silence
                       ELSE ScaleBlock(Inport(hist.snap.sel), hist.snap.gains[hist.snap.sel])

\* The selected channel muted for the period, its output silent, and the
\* period's block written to its file with the signal in it.
C9_Witness ==
  /\ period >= 1
  /\ rt.pc = "idle"
  /\ hist.snap.mutes[0] /\ hist.snap.sel = 0
  /\ outports[0] = Silence
  /\ files[0] # <<>>
  /\ files[0][Len(files[0])][1] = period
  /\ Peak(files[0][Len(files[0])][2]) > 0

\* C10: no step decreases a drop counter; the counters change only by the
\* queue-full path adding one to its channel's counter, the queues and the
\* files unchanged by the failed enqueue; and an enqueue into a queue with
\* room appends the period's block.
C10_DropCounters ==
  [][/\ \A i \in Chan : _rec_drop_counts'[i] >= _rec_drop_counts[i]
     /\ _rec_drop_counts' # _rec_drop_counts =>
          /\ rt.pc = "drop_inc"
          /\ _rec_drop_counts' = [_rec_drop_counts EXCEPT ![rt.i] = @ + 1]
          /\ UNCHANGED <<_rec_queues, files>>
     /\ rt.pc = "put" /\ rt'.pc = "drop_lock" =>
          /\ Len(_rec_queues[rt.i]) = record_queue_size
          /\ UNCHANGED <<_rec_queues, files, _rec_drop_counts>>
     /\ rt.pc \in {"drop_lock", "drop_inc"} /\ rt' # rt => UNCHANGED <<_rec_queues, files>>
     /\ rt.pc = "put" /\ rt' # rt /\ Len(_rec_queues[rt.i]) < record_queue_size =>
          /\ _rec_queues'[rt.i] = Append(_rec_queues[rt.i], <<period, Inport(rt.i)>>)
          /\ UNCHANGED <<files, _rec_drop_counts>>]_vars

\* A period of channel 0 dropped, and a later period enqueued after the
\* writer made room, the other channel without a drop.
C10_Witness ==
  /\ _rec_drop_counts[0] = 1 /\ _rec_drop_counts[1] = 0
  /\ _rec_queues[0] # <<>>
  /\ _rec_queues[0][Len(_rec_queues[0])][1] = record_queue_size + MaxOverrun
  /\ Len(files[0]) >= 1

\* C11: whenever every writer exits within its join timeout, every block
\* that was in a queue when stop() signalled the writers (enqueued and not yet
\* written) is in its channel's file once the joins have returned.
C11_NoLossWithinTimeout ==
  (engine = "simple" /\ hist.rec_joined = Chan /\ ~hist.timed_out) =>
    \A i \in Chan : \A k \in 1..Len(hist.at_signal[i]) :
      \E j \in 1..Len(files[i]) : files[i][j] = hist.at_signal[i][k]

\* The writers' part of stop() is over: they were signalled and every join
\* has returned.
WritersStopped == record_enabled => _rec_stop /\ hist.rec_joined = Chan

\* The metering worker's part of stop() is over (AudioEngine only).
MeterStopped == engine = "simple" => _vu_stop /\ hist.vu_joined

\* C12: stop() keeps a fixed order.  A writer is joined only after the writers
\* were signalled; the metering worker is signalled only after every writer's
\* join has returned, and joined only after it was signalled; the client is
\* deactivated only in the finally block, which, unless the try block raised,
\* is after the writers' and the metering worker's parts; the client is closed
\* only after it was deactivated.
C12_ShutdownOrder ==
  /\ hist.rec_joined # {} => _rec_stop
  /\ _vu_stop => WritersStopped
  /\ hist.vu_joined => _vu_stop
  /\ (main \in {"stopping", "stopped"} /\ ~active) =>
       /\ stopper.pc \in {"close", "returned"}
       /\ ~stopper.raised => WritersStopped /\ MeterStopped
  /\ closed => ~active

\* stop() ran to the end without an exception: both parts, then the client.
C12_Witness ==
  /\ engine = "simple"
  /\ closed
  /\ ~stopper.raised
  /\ hist.rec_joined = Chan
  /\ hist.vu_joined

\* C13: no component is signalled to stop while the transport client is still
\* active, that is while a callback invocation is in progress or can begin.
C13_QuiescentBeforeStop == ~((_rec_stop \/ _vu_stop) /\ active)

\* C14: once stop() is called the transport client ends up deactivated and
\* closed, whether or not the writers and the metering worker exit, and
\* whether or not a join raises.
C14_ShutdownCompletes == (main = "stopping") ~> (closed /\ ~active)

\* A shutdown that completed although a writer outlived its join and a later
\* join raised.
C14_Witness == closed /\ ~active /\ hist.timed_out /\ stopper.raised

\* C15: after stop() and a later start() that created a new session, the new
\* session's channel files hold only blocks captured after that start().
C15_FreshFiles ==
  (hist.restarted /\ _rec_started) =>
    \A i \in Chan : \A j \in 1..Len(files[i]) : files[i][j][1] > hist.restart_period

\* C16: no exception propagates out of the audio callback.
C16_NoEscape == ~hist.escaped

\* C17: every channel gain, and in the matrix engine every input and output
\* gain, is >= 0 in every reachable state.
C17_GainsNonNegative ==
  /\ \A i \in Chan : gains[i] >= 0 /\ input_gains[i] >= 0
  /\ \A o \in Outs : output_gains[o] >= 0

\* A negative gain was given for channel 0 and 0 was stored.
C17_Witness == engine = "simple" /\ gains[0] = 0

\* What a gain setter called with index k may change: gains[k] when k is a
\* valid index, nothing when it is not.
GainFrame(k) ==
  /\ \A j \in Chan : j # k => gains'[j] = gains[j]
  /\ UNCHANGED <<mutes, selected_ch, matrixCtl>>

\* The same for set_mute.
MuteFrame(k) ==
  /\ \A j \in Chan : j # k => mutes'[j] = mutes[j]
  /\ UNCHANGED <<gains, selected_ch, matrixCtl>>

\* C18: set_gain_linear, set_gain_db and set_mute with an index outside
\* [0, num_inputs), a negative one included, change no gain, no mute and not
\* the selection; with a valid index c they change gains[c], respectively
\* mutes[c], and nothing else.
C18_SetterFrame ==
  [][\A k \in ChannelArgs :
       /\ \A g \in GainArgs : set_gain_linear(k, g) => GainFrame(k)
       /\ \A db \in DbArgs : set_gain_db(k, db) => GainFrame(k)
       /\ \A m \in BOOLEAN : set_mute(k, m) => MuteFrame(k)]_vars

\* Channel 0's gain and channel 1's mute were set, and nothing else moved.
C18_Witness ==
  /\ engine = "simple"
  /\ gains[0] = 501 /\ gains[1] = Unity
  /\ mutes[1] /\ ~mutes[0]
  /\ selected_ch = 0

\* C19: the selected channel is a valid index in every reachable state, from
\* construction on and after any set_selected_channel(k); the callback's copy
\* is one too, and its routing step has found the selected input's buffer.
C19_SelectedInRange ==
  /\ selected_ch \in Chan
  /\ rt.pc \notin {"idle", "lock", "snap_sel"} => rt.sel \in Chan
  /\ rt.pc = "route" => rt.route_buf # <<>>

\* The callback routes the last input, selected by a value clamped from above.
C19_Witness == rt.pc = "route" /\ rt.sel = NumInputs - 1 /\ rt.route_buf # <<>>

\* Where get_state is once it has read the control fields.
ReadPcs == {"gs_drops", "gs_pub_lock", "gs_vu"}

\* C20: a select request outside 1..num_inputs is answered 400 and one inside
\* is answered ok; the selection is the channel of the last request answered
\* ok, so a rejected request left it unchanged; and get_state, whose result
\* the metering stream's payload copies, reports that channel.
C20_SelectEndpoint ==
  /\ (ctl.pc = "idle" /\ DOMAIN ctl.res # {}) =>
       (ctl.res.status = 400 <=> ctl.res.selected_channel \notin 1..NumInputs)
  /\ hist.api_selected # 0 => selected_ch + 1 = hist.api_selected
  /\ (ctl.pc \in ReadPcs /\ hist.api_selected # 0) =>
       ctl.res.selected_channel = hist.api_selected

\* The last input was selected through the endpoint and get_state reports it.
C20_Witness ==
  /\ ctl.pc \in ReadPcs
  /\ hist.api_selected = NumInputs
  /\ ctl.res.selected_channel = NumInputs

\* A gain request the endpoint must reject.
BadGain(ch, payload) ==
  ch \notin 1..NumInputs \/ {"gain_db", "gain_linear"} \cap DOMAIN payload = {}

\* A mute request the endpoint must reject.
BadMute(ch, payload) == ch \notin 1..NumInputs \/ "mute" \notin DOMAIN payload

\* The gain a valid gain request stores.
RequestedGain(payload) ==
  Max(0, IF "gain_db" \in DOMAIN payload THEN db_to_linear(payload.gain_db)
         ELSE payload.gain_linear)

\* C21: a gain or mute request with a channel outside 1..num_inputs, or with
\* a body lacking gain_db and gain_linear (respectively mute), is answered 400
\* and leaves every gain, every mute and the selection as they were; a valid
\* request changes the engine at index ch - 1 and nowhere else.
C21_ValidateBeforeMutate ==
  [][/\ \A ch \in RequestArgs, payload \in GainPayloads :
          ApiSetGain(ch, payload) =>
            IF BadGain(ch, payload)
            THEN ctl'.res.status = 400 /\ UNCHANGED simpleCtl
            ELSE /\ gains' = [gains EXCEPT ![ch - 1] = RequestedGain(payload)]
                 /\ UNCHANGED <<mutes, selected_ch>>
     /\ \A ch \in RequestArgs, payload \in MutePayloads :
          ApiSetMute(ch, payload) =>
            IF BadMute(ch, payload)
            THEN ctl'.res.status = 400 /\ UNCHANGED simpleCtl
            ELSE /\ mutes' = [mutes EXCEPT ![ch - 1] = payload.mute]
                 /\ UNCHANGED <<gains, selected_ch>>]_vars

\* Channel 1's gain was set through the endpoint, channel 2 was muted, and
\* the last request was rejected.
C21_Witness ==
  /\ gains[0] = 501 /\ gains[1] = Unity
  /\ mutes[1] /\ ~mutes[0]
  /\ ctl.pc = "idle" /\ DOMAIN ctl.res # {} /\ ctl.res.status = 400

\* The table after a step holds key -> gain and otherwise what it held.
EntrySet(key, gain) ==
  /\ DOMAIN routing_matrix' = DOMAIN routing_matrix \cup {key}
  /\ routing_matrix'[key] = gain
  /\ \A k \in DOMAIN routing_matrix \ {key} : routing_matrix'[k] = routing_matrix[k]

\* The table after a step lacks key and otherwise holds what it held.
EntryRemoved(key) ==
  /\ DOMAIN routing_matrix' = DOMAIN routing_matrix \ {key}
  /\ \A k \in DOMAIN routing_matrix' : routing_matrix'[k] = routing_matrix[k]

\* C22: set_route(i, o, g) with valid indices and g above the epsilon leaves
\* the table, which get_routes copies, with (i, o) -> g and every other entry
\* as it was; with g at or below the epsilon, and clear_route(i, o), remove
\* (i, o) and change nothing else; clear_all_routes leaves the empty table.
C22_RouteTable ==
  [][(ctl.pc = "idle" /\ ctl'.pc = "idle") =>
       /\ \A i \in Chan, o \in Outs, g \in RouteArgs :
            set_route(i, o, g) =>
              IF g > 1 THEN EntrySet(<<i, o>>, g) ELSE EntryRemoved(<<i, o>>)
       /\ \A i \in ChannelArgs, o \in ChannelArgs :
            clear_route(i, o) => EntryRemoved(<<i, o>>)
       /\ clear_all_routes => DOMAIN routing_matrix' = {}]_vars

\* One route was set next to another and a third was removed.
C22_Witness ==
  /\ DOMAIN routing_matrix = {<<0, 1>>, <<1, 0>>}
  /\ routing_matrix[<<0, 1>>] = 300
  /\ routing_matrix[<<1, 0>>] = 2000
  /\ ~hist.load_open

\* C23: every entry (i, o) -> g of the route table has valid indices and a
\* gain above the epsilon.
C23_ValidRoutes ==
  \A key \in DOMAIN routing_matrix :
    key[1] \in Chan /\ key[2] \in Outs /\ routing_matrix[key] > 1

\* C24: in the simple engine, once a period is routed every output port holds
\* the same buffer: the selected channel's raw input of that period times that
\* channel's own snapshot gain, or times zero when the snapshot has it muted.
\* The other channels' gains and mutes do not enter the result.
C24_SelectedToAllOutputs ==
  engine = "simple" /\ period >= 1 /\ rt.pc \in RoutedPcs =>
    \A o \in Outs : \A k \in 1 .. Frames :
      outports[o][k] =
        IF hist.snap.mutes[hist.snap.sel]
        THEN 0
        ELSE MulGain(Inport(hist.snap.sel)[k], hist.snap.gains[hist.snap.sel])

\* A routed period whose snapshot has another channel muted and at another
\* gain than the selected one, which is audible on both outputs.
C24_Witness ==
  /\ engine = "simple" /\ period >= 1 /\ rt.pc = "rec_check"
  /\ \E j \in Chan :
       /\ j # hist.snap.sel
       /\ hist.snap.mutes[j]
       /\ hist.snap.gains[j] # hist.snap.gains[hist.snap.sel]
  /\ ~hist.snap.mutes[hist.snap.sel]
  /\ \A o \in Outs : Peak(outports[o]) > 0

\* The routes of a table whose indices lie in [0, num_inputs) x [0, num_outputs)
\* and which lead to output o.
InRangeRoutesTo(table, o) ==
  {key \in DOMAIN table : key[1] \in Chan /\ key[2] \in Outs /\ key[2] = o}

\* C25: in the matrix engine, once a period is routed every output port holds
\* the soft-clipped sum, times the output's effective gain, of the post-gain
\* signals of the snapshot's routes to it whose indices are in range: a route
\* adds to its own output only, and an entry with an index outside
\* [0, num_inputs) x [0, num_outputs) adds to no output.
C25_RoutesContribute ==
  engine = "matrix" /\ period >= 1 /\ rt.pc \in RoutedPcs =>
    \A o \in Outs :
      outports[o] =
        FinalOutput([key \in InRangeRoutesTo(hist.snap.routing, o) |-> hist.snap.routing[key]],
                    [i \in Chan |->
                       ScaleBlock(Inport(i),
                                  IF hist.snap.in_mutes[i] THEN 0 ELSE hist.snap.in_gains[i])],
                    hist.snap.out_gains, hist.snap.out_mutes, o)

\* _auto_connect_inputs has returned; _auto_connect_outputs has returned.
InputsEnded == auto_connect_capture /\ conn.pc \in {"out_get", "out_connect", "done"}

OutputsEnded == auto_connect_playback /\ conn.pc = "done"

\* C26: the auto-connection of the inputs and that of the outputs each poll
\* for physical ports at most max_retries times, retry_delay apart; each
\* connects at the first poll that finds physical ports, and gives up only
\* once max_retries polls found none.
C26_BoundedRetries ==
  /\ conn.attempt < max_retries
  /\ conn.in_polls <= max_retries /\ conn.out_polls <= max_retries
  /\ conn.slept = conn.attempt * retry_delay
  /\ InputsEnded =>
       IF conn.in_found
       THEN conn.in_tried # {} /\ conn.in_polls = conn.attempt + 1
       ELSE conn.in_polls = max_retries /\ conn.in_tried = {}
  /\ OutputsEnded =>
       IF conn.out_found
       THEN conn.out_tried # {}
       ELSE conn.out_polls = max_retries

\* C27: a failed connect stops nothing. Every port the connect loop was to
\* handle is tried, whichever of them failed, and start(), once the client is
\* activated, goes on to start the writers (when recording is enabled) and the
\* metering worker, whatever connected.
C27_ConnectFailureNotFatal ==
  /\ [](/\ InputsEnded /\ conn.in_found =>
            conn.in_tried = 0 .. (Min(NumInputs, CaptureCandidates) - 1)
        /\ OutputsEnded =>
            conn.out_tried = 0 .. (Min(NumOutputs, PlaybackCandidates) - 1))
  /\ (main = "activated") ~>
       (main = "started" /\ _vu_started /\ (record_enabled => _rec_started))

\* start() has started the writers and the metering worker after the first
\* capture port failed to connect, the second one connected, and no playback
\* port connected.
C27_Witness ==
  /\ main = "started" /\ _vu_started /\ _rec_started
  /\ conn.in_tried = Chan /\ conn.in_made = {1}
  /\ conn.out_tried = Outs /\ conn.out_made = {}

\* C28: when the transport library could not be imported, the constructor
\* raises at once: no client, port, queue or callback ever exists, and the
\* engine is never constructed, activated, or given a thread.
C28_NoTransportNoEngine ==
  ~jack =>
    /\ main \in {"new", "raised"}
    /\ built = {}
    /\ ~active /\ ~_rec_started /\ ~_vu_started

\* The constructor has raised for want of the library.
C28_Witness == ~jack /\ main = "raised" /\ built = {}

C30_DummyAgrees ==
  LET d == DummyGetState(dummy)
  IN /\ d.selected_channel = selected_ch + 1
     /\ d.gains_linear = gains
     /\ d.gains_db = [i \in Chan |-> linear_to_db(gains[i])]
     /\ d.mutes = mutes
     /\ d.recording = FALSE
     /\ d.vu_peak = ZeroChan /\ d.vu_rms = ZeroChan
     /\ d.rec_dropped_buffers = ZeroChan

\* Both engines after a negative gain on the first channel, a gain in dB and a
\* mute on the last, and the last channel selected, the AudioEngine's
\* recording being on.
C30_Witness ==
  /\ dummy.gains[0] = 0 /\ gains[0] = 0
  /\ dummy.gains[NumInputs - 1] = db_to_linear(600)
  /\ dummy.mutes[NumInputs - 1] /\ mutes[NumInputs - 1]
  /\ dummy.selected_ch = NumInputs - 1
  /\ record_enabled

\* C31: once the ports are registered there are exactly N input ports, named
\* in_1 .. in_N in order, and, for M >= 2, exactly M output ports, named out_l,
\* out_r, then out_3 .. out_M in order; the callback writes output index k to
\* the port registered k-th.
C31_PortNames ==
  /\ ports.pc = "done" =>
       /\ Len(ports.inports) = ports.num_inputs
       /\ \A k \in 1 .. ports.num_inputs : ports.inports[k] = "in_" \o ToString(k)
  /\ ports.pc = "done" /\ ports.num_outputs >= 2 =>
       /\ Len(ports.outports) = ports.num_outputs
       /\ ports.outports[1] = "out_l" /\ ports.outports[2] = "out_r"
       /\ \A k \in 3 .. ports.num_outputs : ports.outports[k] = "out_" \o ToString(k)
  /\ ports.num_outputs >= 2 =>
       \A w \in ports.writes :
         w[2] = (IF w[1] = 0 THEN "out_l" ELSE IF w[1] = 1 THEN "out_r"
                 ELSE "out_" \o ToString(w[1] + 1))

\* An engine with three inputs and four outputs whose callback has written
\* its third and fourth outputs.
C31_Witness ==
  /\ ports.pc = "done" /\ ports.num_inputs = 3 /\ ports.num_outputs = 4
  /\ ports.inports = <<"in_1", "in_2", "in_3">>
  /\ {<<2, "out_3">>, <<3, "out_4">>} \subseteq ports.writes

\* The callback is in the recording loop and has not yet dealt with channel i
\* in the current period.
RecPending(i) == rt.pc \in {"put", "drop_lock", "drop_inc"} /\ rt.i <= i

\* C32: for each channel, the blocks enqueued plus the drops counted equal the
\* number of periods whose recording test passed, the period in progress
\* counting for a channel once the recording loop is past that channel;
\* whatever the writers have taken meanwhile.
C32_EveryPeriodAccounted ==
  \A i \in Chan :
    hist.enqueued[i] + _rec_drop_counts[i] =
      hist.rec_periods - (IF RecPending(i) THEN 1 ELSE 0)

\* Between two periods: channel 0 has drops and enqueues, its writer has
\* written some of its blocks, and both channels account for every period.
C32_Witness ==
  /\ rt.pc = "idle"
  /\ hist.rec_periods > record_queue_size
  /\ _rec_drop_counts[0] >= 1 /\ hist.enqueued[0] >= 1
  /\ Len(files[0]) >= 1
  /\ _rec_drop_counts[0] # _rec_drop_counts[1]

\* The locks of the engine, and the thread holding one ("free" when none).
Locks == {"_lock", "_vu_stats_lock", "_vu_pub_lock"}

Holder(l) ==
  IF l = "_lock" THEN _lock ELSE IF l = "_vu_stats_lock" THEN _vu_stats_lock ELSE _vu_pub_lock

Held(t) == {l \in Locks : Holder(l) = t}

\* Thread t is at an acquire, or parked in one.
Acquiring(t) ==
  \/ waiting[t] # ""
  \/ t = "rt" /\ rt.pc \in {"lock", "vu_try", "drop_lock"}
  \/ t = "ctl" /\ ctl.pc \in {"lock", "gs_pub_lock"}
  \/ t = "vu" /\ vu.pc \in {"stats_lock", "pub_lock"}

\* C33: no thread holds two of the engine's locks, and none is at an acquire
\* while it holds one; so the holder of a lock some thread is parked on is
\* never parked itself, and every callback invocation returns.
C33_NoDeadlock ==
  /\ [](\A t \in Threads :
          /\ Cardinality(Held(t)) <= 1
          /\ Acquiring(t) => Held(t) = {}
          /\ waiting[t] # "" /\ Holder(waiting[t]) # "free" => waiting[Holder(waiting[t])] = "")
  /\ (rt.pc # "idle") ~> (rt.pc = "idle")

\* The callback parked on the control lock on its queue-full path while
\* get_state holds that lock and the metering worker holds its statistics lock.
C33_Witness ==
  /\ rt.pc = "drop_lock" /\ waiting["rt"] = "_lock"
  /\ _lock = "ctl"
  /\ _vu_stats_lock = "vu"

\* Channel i has a writer thread running.
WriterRuns(i) == rec[i].pc \notin {"off", "done"}

\* stop() has returned, without raising.
StopReturned == stopper.pc = "returned" /\ ~stopper.raised

\* C34: once stop() has returned recording is inactive (the callback's test
\* `record_enabled and _rec_started` is false), no block is enqueued and no
\* drop counter changes; and no block is enqueued on a channel at a time when
\* that channel has no writer thread to drain it.
C34_InactiveAfterStop ==
  /\ [](StopReturned => ~(record_enabled /\ _rec_started))
  /\ [][/\ StopReturned =>
            /\ \A i \in Chan : Len(_rec_queues'[i]) <= Len(_rec_queues[i])
            /\ _rec_drop_counts' = _rec_drop_counts
        /\ \A i \in Chan : Len(_rec_queues'[i]) > Len(_rec_queues[i]) => WriterRuns(i)]_vars

\* C35: start() does not duplicate workers: no channel is given a writer
\* while its previous writer still runs, nor the engine a metering worker
\* while the previous one still runs; start() on an engine whose recording
\* and metering are started creates no thread and no session files; and with
\* recording disabled no writer is created and no block is enqueued.
C35_NoDuplicateWorkers ==
  /\ [](hist.lingering = {} /\ ~hist.vu_lingering)
  /\ [](~record_enabled => \A i \in Chan : rec[i].pc = "off" /\ _rec_queues[i] = <<>>)
  /\ [][/\ main = "activated" /\ main' # main /\ _rec_started => UNCHANGED <<rec, files, _rec_stop>>
        /\ main = "recording" /\ main' # main /\ _vu_started => UNCHANGED <<vu, _vu_stop>>]_vars

\* C36: once the recording stop event is set every writer exits (its file
\* closed with it), whatever its queue holds, and a writer at its loop test
\* with the event set takes nothing more; once the metering stop event is set
\* the metering worker exits, beginning no tick after a loop test with the
\* event set; and before its stop event the worker never exits, a tick that
\* raised included.
C36_WorkersExit ==
  /\ \A i \in Chan : (_rec_stop ~> rec[i].pc = "done")
  /\ _vu_stop ~> vu.pc = "done"
  /\ [](vu.pc = "done" => _vu_stop)
  /\ [][/\ _vu_stop /\ vu.pc = "sleep" => vu'.pc \in {"sleep", "done"}
        /\ \A i \in Chan : _rec_stop /\ rec[i].pc = "loop" => rec'[i].pc \in {"loop", "done"}]_vars

\* Both kinds of worker have exited, a writer leaving a block in its queue,
\* after a tick of the metering worker had raised.
C36_Witness ==
  /\ \A i \in Chan : rec[i].pc = "done"
  /\ \E i \in Chan : _rec_queues[i] # <<>>
  /\ vu.pc = "done"
  /\ hist.tick_raised

\* C37: the control fields of a get_state result are the values the engine
\* held at one instant, the end of the call's hold of the control lock:
\* selected channel (1-based), gains, mutes and drop counters; and its
\* gains_db are the conversions of the gains_linear of the same result.
C37_ConsistentState ==
  /\ [](ctl.op = "get_state" /\ ctl.pc \in {"gs_drops", "gs_pub_lock", "gs_vu"} =>
          \A c \in Chan : ctl.res.gains_db[c] = linear_to_db(ctl.res.gains_linear[c]))
  /\ [][ctl.pc = "gs_drops" /\ ctl'.pc = "gs_pub_lock" =>
          /\ ctl'.res.selected_channel = selected_ch + 1
          /\ ctl'.res.gains_linear = gains
          /\ ctl'.res.mutes = mutes
          /\ ctl'.res.rec_dropped_buffers = _rec_drop_counts]_vars

\* A result taken after the second caller changed a gain and the callback
\* counted a drop, while the callback waits on the lock get_state holds.
C37_Witness ==
  /\ ctl.pc = "gs_drops"
  /\ \E c \in Chan : ctl.res.gains_linear[c] = 500
  /\ \E c \in Chan : _rec_drop_counts[c] > 0
  /\ waiting["rt"] = "_lock"

\* The port called name is the engine's input k: its name, in lower case,
\* is "bullen" followed by what is left of the client's name, then ":in_k".
IsInput(name, k) ==
  /\ Len(name) >= Len(TargetLc(k))
  /\ SubSeq(Lower(name), Len(name) - Len(TargetLc(k)) + 1, Len(name)) = TargetLc(k)
  /\ Contains(Lower(name), <<"b", "u", "l", "l", "e", "n">>)

\* C38: find_bullen_input_port returns the exact port when the list has it,
\* and otherwise nothing or a port of the input it was asked for, never the
\* port of another input.
C38_RightInput ==
  feed.pc = "returned" =>
    /\ (\E j \in 1 .. Len(feed.names) : feed.names[j] = ExactName(feed.input_index)) =>
         feed.result = ExactName(feed.input_index)
    /\ feed.result = <<>> \/ IsInput(feed.result, feed.input_index)

\* C39: once a connection's peer has disconnected its handler leaves the
\* receive loop and the connection leaves the client set; a connection a
\* send failed on is out of the client set when that publishing round ends,
\* and the publisher sends to no connection after finding it dead.
C39_DisconnectCleanup ==
  /\ \A w \in Sockets :
       (app_state.handler[w] # "new" /\ ~app_state.open[w]) ~>
         (app_state.handler[w] = "ended" /\ w \notin app_state.clients)
  /\ [](app_state.sent_dead = {})
  /\ [][app_state.pub = "send" /\ app_state'.pub = "sleep" =>
          app_state'.clients \cap app_state.failed = {}]_vars

\* C40: the feeder's position stays within [0, n]; looping with a period no
\* longer than the file, the port carries the file's samples cyclically,
\* none skipped, repeated or zeroed; not looping, it carries the samples once
\* in order and zeros from then on.
C40_FeederOutput ==
  LET n == Len(feed.x)
  IN /\ 0 <= feed.i /\ feed.i <= n
     /\ Len(feed.out) = feed.periods * feed.frames
     /\ feed.loop /\ feed.frames <= n =>
          \A j \in 1 .. Len(feed.out) : feed.out[j] = feed.x[((j - 1) % n) + 1]
     /\ ~feed.loop =>
          \A j \in 1 .. Len(feed.out) : feed.out[j] = IF j <= n THEN feed.x[j] ELSE 0

\* A looping feeder that has wrapped in the middle of a period, and went on.
C40_Witness ==
  /\ feed.loop
  /\ feed.frames < Len(feed.x)
  /\ Len(feed.x) % feed.frames # 0
  /\ feed.periods = MaxFeedPeriods
  /\ Len(feed.out) > 2 * Len(feed.x)

====
